---------------------------- MODULE Spec2Model ----------------------------
(***************************************************************************)
(* Model of the schedule engine (internal/scheduler) and of the gateway    *)
(* client (internal/discord/client.go) of discord-cnayp-bots.              *)
(*                                                                         *)
(* Time is counted in whole minutes since 2025-01-25 00:00 UTC (a          *)
(* Saturday).  A time.Time value is a record [abs, loc]: the instant and   *)
(* the location it is presented in.  Locations are fixed-offset zones (the *)
(* modelled window lies in January, outside any daylight-saving change).   *)
(***************************************************************************)
EXTENDS Integers, Sequences, FiniteSets, Bags, TLC

VARIABLES
  \* ---- wall clock and the scheduler's tick loop (Scheduler.Run)
  now,              \* time.Now(), minutes since the epoch
  elapsed,          \* minutes elapsed since the process started
  tickPending,      \* a tick is waiting in ticker.C (buffer of one)
  pc,               \* position of Scheduler.Run
  loads,            \* number of Load calls made so far
  cancelled,        \* ctx.Done() is closed
  ticks,            \* number of ticks Scheduler.Run has taken from ticker.C
  \* ---- Scheduler fields
  schedules, digestTime, digestChannel, reminderMinutes,
  channelCache, lastCreated, lastDigest, sentReminders,
  \* ---- in flight
  digestNow,        \* argument of the pending sendDailyDigest call
  tasks,            \* bag of spawned goroutines (sendReminder, triggerSchedule)
  \* ---- observation
  started,          \* bag of actions started: creation, reminder, digest
  calls,            \* bag of outbound calls the last step made (discord.Client)
  remote,           \* the guild's channel listing as the remote side has it
  \* ---- pure evaluation harness
  evalOut,
  \* ---- Gateway fields and tasks
  conn, sequence, sessionID, handlers,
  gwPc,             \* position of Gateway.Connect
  readerPc,         \* position of Gateway.readLoop
  heartbeatLoops,   \* the running heartbeatLoop goroutines, by their interval
  frames,           \* number of frames read so far
  lastFrame,        \* the frame handled last
  sent,             \* frames the last step wrote to the connection
  running           \* bag of listener goroutines started by dispatch

schedVars == <<now, elapsed, tickPending, pc, loads, cancelled, ticks,
               schedules, digestTime, digestChannel, reminderMinutes,
               channelCache, lastCreated, lastDigest, sentReminders,
               digestNow, tasks, started, calls, remote>>
gwVars == <<conn, sequence, sessionID, handlers, gwPc, readerPc,
            heartbeatLoops, frames, lastFrame, sent, running>>
vars == <<schedVars, evalOut, gwVars>>

-----------------------------------------------------------------------------
(* Bounds of the model.                                                    *)

MaxAdvance == 3
MaxLoads == 3
EvalDays == 2
MaxFrames == 3
MaxSeq == 2
MaxHeartbeatLoops == 2
MaxRegistrations == 2

-----------------------------------------------------------------------------
(* The time package, as far as the scheduler uses it.                      *)

MinutesPerDay == 24 * 60

\* time.Weekday of the epoch day (2025-01-25 is a Saturday; Sunday = 0), so
\* that 2025-01-26 is the Sunday the tests evaluate at.
EpochWeekday == 6

\* time.LoadLocation: the zones known to the model, with their January
\* offsets from UTC in minutes.  Any other name fails to load.
ZoneOffset ==
  ("UTC" :> 0) @@ ("America/New_York" :> (0 - 300)) @@ ("Asia/Bangkok" :> 420)

LoadLocationOk(name) == name \in DOMAIN ZoneOffset

\* t.In(loc)
In(t, loc) == [abs |-> t, loc |-> loc]

Wall(x) == x.abs + ZoneOffset[x.loc]
DayOf(x) == Wall(x) \div MinutesPerDay
Hour(x) == (Wall(x) % MinutesPerDay) \div 60
Minute(x) == Wall(x) % 60

\* time.Weekday.String()
WeekdayNames ==
  <<"Sunday", "Monday", "Tuesday", "Wednesday", "Thursday", "Friday", "Saturday">>

Weekday(x) == WeekdayNames[((EpochWeekday + DayOf(x)) % 7) + 1]

\* x.AddDate(0, 0, days): same wall clock, days later.
AddDate(x, days) == [x EXCEPT !.abs = @ + days * MinutesPerDay]

\* x.Add(d), d in minutes
Add(x, mins) == [x EXCEPT !.abs = @ + mins]

\* time.Date(y, m, d, hour, minute, 0, 0, loc); the day is given as the day
\* number since the epoch, out-of-range hours and minutes are normalised.
Date(day, hour, minute, loc) ==
  [abs |-> day * MinutesPerDay + hour * 60 + minute - ZoneOffset[loc],
   loc |-> loc]

\* x.Format("2006-01-02")
DateStrings ==
  <<"2025-01-25", "2025-01-26", "2025-01-27", "2025-01-28", "2025-01-29",
    "2025-01-30", "2025-01-31", "2025-02-01", "2025-02-02", "2025-02-03">>

Format(x) == DateStrings[DayOf(x) + 1]

-----------------------------------------------------------------------------
(* Strings: strings.ToLower, strings.Split(s, ":") and fmt.Sscanf("%d").   *)

\* A comparison of the days as they are spelled.
ToLower_AsSpelled(s) == s

ToLower(s) ==
  CASE s = "Sunday" -> "sunday"
    [] s = "Monday" -> "monday"
    [] s = "MONDAY" -> "monday"
    [] s = "Tuesday" -> "tuesday"
    [] s = "Wednesday" -> "wednesday"
    [] s = "WEDNESDAY" -> "wednesday"
    [] s = "Thursday" -> "thursday"
    [] s = "Friday" -> "friday"
    [] s = "Saturday" -> "saturday"
    [] OTHER -> s

\* strings.Split(s, ":") on the time-of-day strings of the model.
SplitColon(s) ==
  CASE s = "17:00" -> <<"17", "00">>
    [] s = "17:01" -> <<"17", "01">>
    [] s = "17:02" -> <<"17", "02">>
    [] s = "18:00" -> <<"18", "00">>
    [] s = "12:00" -> <<"12", "00">>
    [] s = "00:00" -> <<"00", "00">>
    [] s = "00:01" -> <<"00", "01">>
    [] s = "00:30" -> <<"00", "30">>
    [] s = "00:59" -> <<"00", "59">>
    [] s = "17:00:00" -> <<"17", "00", "00">>
    [] s = "ab:cd" -> <<"ab", "cd">>
    [] OTHER -> <<s>>

\* fmt.Sscanf(field, "%d", &v) with v initially 0: the error is not looked
\* at, so a field that is not a number leaves 0.
NumberOf ==
  ("00" :> 0) @@ ("01" :> 1) @@ ("02" :> 2) @@ ("12" :> 12) @@ ("17" :> 17)
  @@ ("18" :> 18) @@ ("30" :> 30) @@ ("59" :> 59)

Sscanf(field) == IF field \in DOMAIN NumberOf THEN NumberOf[field] ELSE 0

\* A Go map[string]string read: the zero value for a missing key.
MapGet(m, k) == IF k \in DOMAIN m THEN m[k] ELSE ""
MapGetSeq(m, k) == IF k \in DOMAIN m THEN m[k] ELSE <<>>
MapPut(m, k, v) == [x \in (DOMAIN m) \cup {k} |-> IF x = k THEN v ELSE m[x]]
EmptyMap == [x \in {} |-> ""]

\* fmt.Sprintf("%s:%s:%d", name, dateKey, mins)
ReminderKey(name, dateKey, mins) == <<name, dateKey, mins>>

-----------------------------------------------------------------------------
(* Configuration documents the model loads (ScheduleConfig).               *)

Standup ==
  [Name |-> "Standup", VoiceChannel |-> "voice", NotifyChannel |-> "events",
   Days |-> <<"monday">>, Time |-> "17:00", Timezone |-> "UTC",
   DurationMinutes |-> 30]

Retro ==
  [Name |-> "Retro", VoiceChannel |-> "voice", NotifyChannel |-> "events",
   Days |-> <<"sunday">>, Time |-> "18:00", Timezone |-> "UTC",
   DurationMinutes |-> 45]

StandupNY ==
  [Standup EXCEPT !.Days = <<"Monday", "WEDNESDAY">>, !.Time = "12:00",
                  !.Timezone = "America/New_York"]

StandupBKK ==
  [Standup EXCEPT !.Days = <<"Tuesday">>, !.Time = "00:01",
                  !.Timezone = "Asia/Bangkok"]

Weekly == [Standup EXCEPT !.Name = "Weekly"]

CfgUTC ==
  [Schedules |-> <<Standup, Retro>>, DigestTime |-> "17:00",
   DigestChannel |-> "general", ReminderMinutes |-> <<60, 59>>]

CfgBKK ==
  [Schedules |-> <<StandupBKK>>, DigestTime |-> "00:01",
   DigestChannel |-> "general", ReminderMinutes |-> <<>>]

CfgLate ==
  [Schedules |-> <<Standup, Weekly>>, DigestTime |-> "17:02",
   DigestChannel |-> "general", ReminderMinutes |-> <<60>>]

Configs == {CfgUTC, CfgBKK, CfgLate}

\* The guild's channels as GetGuildChannels returns them (name -> id).
Listing == ("general" :> "c1") @@ ("voice" :> "c2") @@ ("events" :> "c3")

\* The instants the process may start at: Sunday 2025-01-26 16:59 UTC.
StartInstants == {Date(1, 16, 59, "UTC").abs}

-----------------------------------------------------------------------------
(* Scheduler: pure parts of the passes.                                    *)

\* The inner loop over schedule.Days: some day, lower-cased, is dayName.
DayMatch(schedule, dayName) ==
  \E i \in 1..Len(schedule.Days) : ToLower(schedule.Days[i]) = dayName

\* Scheduler.shouldTrigger(schedule, now)
shouldTrigger(schedule, t) ==
  IF ~LoadLocationOk(schedule.Timezone) THEN FALSE
  ELSE
    LET localNow == In(t, schedule.Timezone)
        tomorrow == AddDate(localNow, 1)
        tomorrowDayName == ToLower(Weekday(tomorrow))
        parts == SplitColon(schedule.Time)
        hour == Sscanf(parts[1])
        minute == Sscanf(parts[2])
        dateKey == Format(tomorrow)
        lastDate == MapGet(lastCreated, schedule.Name)
    IN  IF ~DayMatch(schedule, tomorrowDayName) THEN FALSE
        ELSE IF Len(parts) # 2 THEN FALSE
        ELSE IF Hour(localNow) # hour \/ Minute(localNow) # minute THEN FALSE
        ELSE IF lastDate = dateKey THEN FALSE
        ELSE TRUE

\* The dateKey triggerSchedule computes from the now it was handed.
TriggerDateKey(schedule, t) == Format(AddDate(In(t, schedule.Timezone), 1))

\* The reminder condition with the minutes left out of the comparison.
ReminderTimeMatches_HourOnly(localNow, eventTime, mins) ==
  Hour(localNow) = Hour(Add(eventTime, 0 - mins))

\* The condition of checkReminders' inner loop for one lead-time: the hour
\* and minute of localNow are those of eventTime - mins.
ReminderTimeMatches(localNow, eventTime, mins) ==
  LET reminderTime == Add(eventTime, 0 - mins)
  IN  Hour(localNow) = Hour(reminderTime) /\ Minute(localNow) = Minute(reminderTime)

\* eventTime of checkReminders: today's date in loc at the schedule's time.
EventTime(schedule, localNow) ==
  LET parts == SplitColon(schedule.Time)
  IN  Date(DayOf(localNow), Sscanf(parts[1]), Sscanf(parts[2]), localNow.loc)

\* A reminder pass that does not look at the weekday.
ReminderConsidered_AnyDay(schedule, t) ==
  /\ LoadLocationOk(schedule.Timezone)
  /\ Len(SplitColon(schedule.Time)) = 2

\* The body of checkReminders' outer loop up to the inner loop: the schedule
\* is looked at in this pass (zone loads, today is one of its days, the time
\* has two fields).
ReminderConsidered(schedule, t) ==
  /\ LoadLocationOk(schedule.Timezone)
  /\ DayMatch(schedule, ToLower(Weekday(In(t, schedule.Timezone))))
  /\ Len(SplitColon(schedule.Time)) = 2

\* The goroutines one schedule makes checkReminders start, in the order of
\* reminderMinutes: one sendReminder per lead-time that matches and whose
\* key is not in sentReminders.
RECURSIVE ReminderSpawns(_, _, _, _)
ReminderSpawns(schedule, t, leads, sentKeys) ==
  IF leads = <<>> \/ ~ReminderConsidered(schedule, t) THEN <<>>
  ELSE
    LET localNow == In(t, schedule.Timezone)
        eventTime == EventTime(schedule, localNow)
        mins == Head(leads)
        reminderKey == ReminderKey(schedule.Name, Format(localNow), mins)
        rest == ReminderSpawns(schedule, t, Tail(leads), sentKeys)
    IN  IF ReminderTimeMatches(localNow, eventTime, mins) /\ reminderKey \notin sentKeys
        THEN <<[kind |-> "sendReminder", schedule |-> schedule,
                at |-> eventTime.abs, mins |-> mins, key |-> reminderKey]>> \o rest
        ELSE rest

\* All goroutines one checkReminders pass starts.
RECURSIVE AllReminderSpawns(_, _, _, _)
AllReminderSpawns(scheds, t, leads, sentKeys) ==
  IF scheds = <<>> THEN <<>>
  ELSE ReminderSpawns(Head(scheds), t, leads, sentKeys)
       \o AllReminderSpawns(Tail(scheds), t, leads, sentKeys)

\* All goroutines one checkSchedules pass starts.
RECURSIVE AllTriggerSpawns(_, _)
AllTriggerSpawns(scheds, t) ==
  IF scheds = <<>> THEN <<>>
  ELSE (IF shouldTrigger(Head(scheds), t)
        THEN <<[kind |-> "triggerSchedule", schedule |-> Head(scheds),
                at |-> t, mins |-> 0,
                key |-> <<Head(scheds).Name, TriggerDateKey(Head(scheds), t)>>]>>
        ELSE <<>>)
       \o AllTriggerSpawns(Tail(scheds), t)

RECURSIVE BagOfSeq(_)
BagOfSeq(s) ==
  IF s = <<>> THEN EmptyBag ELSE SetToBag({Head(s)}) (+) BagOfSeq(Tail(s))

\* The action a goroutine carries out, as the observation records it.
ActionOf(task) ==
  IF task.kind = "triggerSchedule"
  THEN <<"create", task.key[1], task.key[2]>>
  ELSE <<"remind", task.key[1], task.key[2], task.key[3]>>

ActionsOf(spawned) == BagOfSeq([i \in 1..Len(spawned) |-> ActionOf(spawned[i])])

\* checkDigest comparing the hour only.
DigestDue_AnyMinute(t) ==
  /\ digestTime # "" /\ digestChannel # ""
  /\ Len(schedules) # 0
  /\ LoadLocationOk(schedules[1].Timezone)
  /\ LET nowL == In(t, schedules[1].Timezone)
         parts == SplitColon(digestTime)
     IN  /\ lastDigest # Format(nowL)
         /\ Len(parts) = 2
         /\ Hour(nowL) = Sscanf(parts[1])

\* checkDigest up to the point where it takes the write lock: the digest is
\* due at instant t.
DigestDue(t) ==
  /\ digestTime # "" /\ digestChannel # ""
  /\ Len(schedules) # 0
  /\ LoadLocationOk(schedules[1].Timezone)
  /\ LET nowL == In(t, schedules[1].Timezone)
         parts == SplitColon(digestTime)
     IN  /\ lastDigest # Format(nowL)
         /\ Len(parts) = 2
         /\ Hour(nowL) = Sscanf(parts[1])
         /\ Minute(nowL) = Sscanf(parts[2])

\* todayEvents of sendDailyDigest, by name.
RECURSIVE TodayEvents(_, _)
TodayEvents(scheds, dayName) ==
  IF scheds = <<>> THEN <<>>
  ELSE (IF DayMatch(Head(scheds), dayName) THEN <<Head(scheds).Name>> ELSE <<>>)
       \o TodayEvents(Tail(scheds), dayName)

\* A resolution that caches the requested channel only.
resolveChannelID_RequestedOnly(cache, channelName, fails, listing) ==
  IF channelName \in DOMAIN cache
  THEN [ok |-> TRUE, id |-> cache[channelName], cache |-> cache, called |-> FALSE,
        err |-> ""]
  ELSE IF fails
  THEN [ok |-> FALSE, id |-> "", cache |-> cache, called |-> TRUE,
        err |-> "get guild channels"]
  ELSE IF channelName \in DOMAIN listing
  THEN [ok |-> TRUE, id |-> listing[channelName],
        cache |-> MapPut(cache, channelName, listing[channelName]),
        called |-> TRUE, err |-> ""]
  ELSE [ok |-> FALSE, id |-> "", cache |-> cache, called |-> TRUE,
        err |-> "channel not found"]

\* Scheduler.resolveChannelID(channelName); fails says whether the listing
\* call (made only on a cache miss) returns an error.
resolveChannelID(cache, channelName, fails, listing) ==
  IF channelName \in DOMAIN cache
  THEN [ok |-> TRUE, id |-> cache[channelName], cache |-> cache, called |-> FALSE,
        err |-> ""]
  ELSE IF fails
  THEN [ok |-> FALSE, id |-> "", cache |-> cache, called |-> TRUE,
        err |-> "get guild channels"]
  ELSE LET filled == [n \in (DOMAIN cache) \cup (DOMAIN listing) |->
                        IF n \in DOMAIN listing THEN listing[n] ELSE cache[n]]
       IN  [ok |-> channelName \in DOMAIN filled, id |-> MapGet(filled, channelName),
            cache |-> filled, called |-> TRUE,
            err |-> IF channelName \in DOMAIN filled THEN ""
                    ELSE "channel not found"]

\* The outcomes the listing call can have for a resolution of channelName.
ListingOutcomes(cache, channelName) ==
  IF channelName \in DOMAIN cache THEN {FALSE} ELSE BOOLEAN

\* The arguments of an outbound call, as far as the model records them.
Args(channel, event, start, end, list) ==
  [channel |-> channel, event |-> event, start |-> start, end |-> end, list |-> list]

CallWith(api, for, args) == SetToBag({[api |-> api, for |-> for, args |-> args]})

ListingCall(res, for) ==
  IF res.called THEN CallWith("GetGuildChannels", for, Args("", "", 0, 0, <<>>))
  ELSE EmptyBag
-----------------------------------------------------------------------------
(* Scheduler: state after New, and the operations.                         *)

NoTime == [abs |-> 0, loc |-> "UTC"]
NotEvaluated == [done |-> FALSE]

\* New(client, guildID, configPath)
SchedulerNew ==
  /\ schedules = <<>>
  /\ digestTime = ""
  /\ digestChannel = ""
  /\ reminderMinutes = <<60, 15>>
  /\ channelCache = EmptyMap
  /\ lastCreated = EmptyMap
  /\ lastDigest = ""
  /\ sentReminders = {}

\* The process before Scheduler.Run has done anything.
SchedulerIdle ==
  /\ now \in StartInstants
  /\ elapsed = 0
  /\ tickPending = FALSE
  /\ pc = "start"
  /\ loads = 0
  /\ cancelled = FALSE
  /\ ticks = 0
  /\ digestNow = NoTime
  /\ tasks = EmptyBag
  /\ started = EmptyBag
  /\ calls = EmptyBag
  /\ remote = Listing

engineVars == <<schedules, digestTime, digestChannel, reminderMinutes>>
dedupVars == <<lastCreated, lastDigest, sentReminders>>
otherVars == <<ticks, remote, evalOut, gwVars>>

\* Load that also starts the dedup bookkeeping afresh.
LoadConfig_ResetsDedup(config) ==
  /\ schedules' = config.Schedules
  /\ digestTime' = config.DigestTime
  /\ digestChannel' = config.DigestChannel
  /\ reminderMinutes' = IF Len(config.ReminderMinutes) > 0
                        THEN config.ReminderMinutes ELSE reminderMinutes
  /\ lastCreated' = EmptyMap
  /\ sentReminders' = {}
  /\ lastDigest' = ""
  /\ UNCHANGED channelCache

\* Scheduler.Load for a configuration that was read and parsed: the locked
\* section, which assigns the four engine fields and nothing else.
LoadConfig(config) ==
  /\ schedules' = config.Schedules
  /\ digestTime' = config.DigestTime
  /\ digestChannel' = config.DigestChannel
  /\ reminderMinutes' = IF Len(config.ReminderMinutes) > 0
                        THEN config.ReminderMinutes ELSE reminderMinutes
  /\ UNCHANGED <<channelCache, dedupVars>>

\* Scheduler.Run: the initial Load succeeds and the ticker is created.
RunLoad(config) ==
  /\ pc = "start"
  /\ LoadConfig(config)
  /\ pc' = "idle"
  /\ loads' = loads + 1
  /\ calls' = EmptyBag
  /\ UNCHANGED <<now, elapsed, tickPending, cancelled, digestNow, tasks, started,
                 otherVars>>

\* A Run that goes on to its loop after a Load that failed.
RunLoadFails_StartsLoop ==
  /\ pc = "start"
  /\ pc' = "idle"
  /\ loads' = loads + 1
  /\ calls' = EmptyBag
  /\ UNCHANGED <<now, elapsed, tickPending, cancelled, engineVars, channelCache,
                 dedupVars, digestNow, tasks, started, otherVars>>

\* Scheduler.Run: the initial Load fails and Run returns.
RunLoadFails ==
  /\ pc = "start"
  /\ pc' = "stopped"
  /\ loads' = loads + 1
  /\ calls' = EmptyBag
  /\ UNCHANGED <<now, elapsed, tickPending, cancelled, engineVars, channelCache,
                 dedupVars, digestNow, tasks, started, otherVars>>

\* Scheduler.Load called again on the running scheduler.
Reload(config) ==
  /\ pc \notin {"start", "stopped"}
  /\ loads < MaxLoads
  /\ LoadConfig(config)
  /\ loads' = loads + 1
  /\ calls' = EmptyBag
  /\ UNCHANGED <<now, elapsed, tickPending, pc, cancelled, digestNow, tasks,
                 started, otherVars>>

\* A Load that fails after it has emptied the schedule list.
ReloadFails_ClearsSchedules ==
  /\ pc \notin {"start", "stopped"}
  /\ loads < MaxLoads
  /\ loads' = loads + 1
  /\ schedules' = <<>>
  /\ calls' = EmptyBag
  /\ UNCHANGED <<now, elapsed, tickPending, pc, cancelled, digestTime, digestChannel,
                 reminderMinutes, channelCache, dedupVars, digestNow, tasks, started,
                 otherVars>>

\* Scheduler.Load called again, the file cannot be read or parsed.
ReloadFails ==
  /\ pc \notin {"start", "stopped"}
  /\ loads < MaxLoads
  /\ loads' = loads + 1
  /\ calls' = EmptyBag
  /\ UNCHANGED <<now, elapsed, tickPending, pc, cancelled, engineVars, channelCache,
                 dedupVars, digestNow, tasks, started, otherVars>>

\* A minute passes; the ticker of a running loop puts a tick in its channel
\* (a tick that finds the channel full is dropped).
Advance ==
  /\ elapsed < MaxAdvance
  /\ now' = now + 1
  /\ elapsed' = elapsed + 1
  /\ tickPending' = IF pc \in {"start", "stopped"} THEN tickPending ELSE TRUE
  /\ calls' = EmptyBag
  /\ UNCHANGED <<pc, loads, cancelled, engineVars, channelCache, dedupVars,
                 digestNow, tasks, started, otherVars>>

\* Scheduler.Run, case <-ticker.C: checkAll begins.
TickStart ==
  /\ pc = "idle"
  /\ tickPending
  /\ tickPending' = FALSE
  /\ pc' = "checkDigest"
  /\ ticks' = ticks + 1
  /\ calls' = EmptyBag
  /\ UNCHANGED <<now, elapsed, loads, cancelled, engineVars, channelCache,
                 dedupVars, digestNow, tasks, started, remote, evalOut, gwVars>>

\* Scheduler.checkDigest, up to the call of sendDailyDigest.
checkDigest ==
  /\ pc = "checkDigest"
  /\ IF DigestDue(now)
     THEN LET nowL == In(now, schedules[1].Timezone)
          IN  /\ lastDigest' = Format(nowL)
              /\ digestNow' = nowL
              /\ started' = started (+) SetToBag({<<"digest", Format(nowL)>>})
              /\ pc' = "sendDailyDigest"
     ELSE /\ pc' = "checkReminders"
          /\ UNCHANGED <<lastDigest, digestNow, started>>
  /\ calls' = EmptyBag
  /\ UNCHANGED <<now, elapsed, tickPending, loads, cancelled, engineVars,
                 channelCache, lastCreated, sentReminders, tasks, otherVars>>

\* Scheduler.sendDailyDigest(ctx, now), called by checkDigest.
sendDailyDigest ==
  /\ pc = "sendDailyDigest"
  /\ \E fails \in ListingOutcomes(channelCache, digestChannel) :
       LET for == <<"digest", Format(digestNow)>>
           todayEvents == TodayEvents(schedules, ToLower(Weekday(digestNow)))
           res == resolveChannelID(channelCache, digestChannel, fails, remote)
       IN  /\ channelCache' = res.cache
           /\ calls' = ListingCall(res, for)
                       (+) (IF res.ok
                            THEN CallWith("SendMessage", for,
                                          Args(res.id, "", 0, 0, todayEvents))
                            ELSE EmptyBag)
  /\ digestNow' = NoTime
  /\ pc' = "checkReminders"
  /\ UNCHANGED <<now, elapsed, tickPending, loads, cancelled, engineVars,
                 dedupVars, tasks, started, otherVars>>

\* A reminder pass after which the tick is over.
checkReminders_SkipsCreation ==
  /\ pc = "checkReminders"
  /\ LET spawned == AllReminderSpawns(schedules, now, reminderMinutes, sentReminders)
     IN  /\ tasks' = tasks (+) BagOfSeq(spawned)
         /\ started' = started (+) ActionsOf(spawned)
  /\ pc' = "idle"
  /\ calls' = EmptyBag
  /\ UNCHANGED <<now, elapsed, tickPending, loads, cancelled, engineVars,
                 channelCache, dedupVars, digestNow, otherVars>>

\* Scheduler.checkReminders
checkReminders ==
  /\ pc = "checkReminders"
  /\ LET spawned == AllReminderSpawns(schedules, now, reminderMinutes, sentReminders)
     IN  /\ tasks' = tasks (+) BagOfSeq(spawned)
         /\ started' = started (+) ActionsOf(spawned)
  /\ pc' = "checkSchedules"
  /\ calls' = EmptyBag
  /\ UNCHANGED <<now, elapsed, tickPending, loads, cancelled, engineVars,
                 channelCache, dedupVars, digestNow, otherVars>>

\* Scheduler.checkSchedules
checkSchedules ==
  /\ pc = "checkSchedules"
  /\ LET spawned == AllTriggerSpawns(schedules, now)
     IN  /\ tasks' = tasks (+) BagOfSeq(spawned)
         /\ started' = started (+) ActionsOf(spawned)
  /\ pc' = "idle"
  /\ calls' = EmptyBag
  /\ UNCHANGED <<now, elapsed, tickPending, loads, cancelled, engineVars,
                 channelCache, dedupVars, digestNow, otherVars>>
-----------------------------------------------------------------------------
(* Scheduler: the goroutines the passes start.                             *)

Return(task) == tasks (-) SetToBag({task})

\* Scheduler.sendReminder, the goroutine checkReminders starts: the mark is
\* written first, then the notify channel is resolved (the task ends if that
\* fails), the voice channel is resolved (an error is ignored) and the
\* message is sent (the result is only logged).
sendReminder(task) ==
  /\ task.kind = "sendReminder"
  /\ sentReminders' = sentReminders \cup {task.key}
  /\ \E failsNotify \in ListingOutcomes(channelCache, task.schedule.NotifyChannel) :
       LET for == ActionOf(task)
           notify == resolveChannelID(channelCache, task.schedule.NotifyChannel,
                                      failsNotify, remote)
       IN  IF ~notify.ok
           THEN /\ channelCache' = notify.cache
                /\ calls' = ListingCall(notify, for)
           ELSE \E failsVoice \in ListingOutcomes(notify.cache, task.schedule.VoiceChannel) :
                  LET voice == resolveChannelID(notify.cache, task.schedule.VoiceChannel,
                                                failsVoice, remote)
                  IN  /\ channelCache' = voice.cache
                      /\ calls' = ListingCall(notify, for) (+) ListingCall(voice, for)
                                  (+) CallWith("SendMessage", for,
                                               Args(notify.id, "", task.at, 0,
                                                    <<voice.id>>))
  /\ tasks' = Return(task)
  /\ UNCHANGED <<now, elapsed, tickPending, pc, loads, cancelled, engineVars,
                 lastCreated, lastDigest, digestNow, started, otherVars>>

\* A start on the day of the pass itself.
StartTime_Today(schedule, t) ==
  LET localNow == In(t, schedule.Timezone)
      parts == SplitColon(schedule.Time)
  IN  Date(DayOf(localNow), Sscanf(parts[1]), Sscanf(parts[2]), schedule.Timezone)

\* startTime and endTime of triggerSchedule, as instants.
StartTime(schedule, t) ==
  LET tomorrow == AddDate(In(t, schedule.Timezone), 1)
      parts == SplitColon(schedule.Time)
  IN  Date(DayOf(tomorrow), Sscanf(parts[1]), Sscanf(parts[2]), schedule.Timezone)

EndTime(schedule, t) == Add(StartTime(schedule, t), schedule.DurationMinutes)

\* The identifiers CreateScheduledEvent may answer with.
EventIDs == {"e1", "e2"}

\* A task that goes on although the channel was not resolved.
AfterResolve_Continues(resolved, outbound) == outbound

\* triggerSchedule after resolving the notify channel: it returns when the
\* resolution failed, and makes its outbound calls otherwise.
AfterResolve(resolved, outbound) ==
  IF resolved.ok THEN outbound ELSE EmptyBag

\* An announcement that does not look at the result of the creation.
Announcement_Always(failsCreate, announce) == announce

\* triggerSchedule after CreateScheduledEvent: it returns when the creation
\* failed, and sends the announcement otherwise.
Announcement(failsCreate, announce) ==
  IF failsCreate THEN EmptyBag ELSE announce

\* Scheduler.triggerSchedule, the goroutine checkSchedules starts: the mark is
\* written first, then both channels are resolved (the task ends at the first
\* that fails), the event is created (the task ends if that fails) and the
\* announcement is sent (the result is only logged).  The record of the
\* CreateScheduledEvent call holds, as event, the identifier it answered with
\* (none when it failed).
triggerSchedule(task) ==
  /\ task.kind = "triggerSchedule"
  /\ lastCreated' = MapPut(lastCreated, task.schedule.Name,
                           TriggerDateKey(task.schedule, task.at))
  /\ \E failsVoice \in ListingOutcomes(channelCache, task.schedule.VoiceChannel) :
       LET for == ActionOf(task)
           voice == resolveChannelID(channelCache, task.schedule.VoiceChannel,
                                     failsVoice, remote)
       IN  IF ~voice.ok
           THEN /\ channelCache' = voice.cache
                /\ calls' = ListingCall(voice, for)
           ELSE \E failsNotify \in ListingOutcomes(voice.cache, task.schedule.NotifyChannel) :
                  LET notify == resolveChannelID(voice.cache, task.schedule.NotifyChannel,
                                                 failsNotify, remote)
                      startTime == StartTime(task.schedule, task.at)
                      endTime == EndTime(task.schedule, task.at)
                      create(id) == CallWith("CreateScheduledEvent", for,
                                             Args(voice.id, id, startTime.abs,
                                                  endTime.abs, <<>>))
                      announce(id) == CallWith("SendMessage", for,
                                               Args(notify.id, id, startTime.abs, 0,
                                                    <<voice.id>>))
                  IN  /\ channelCache' = notify.cache
                      /\ \E failsCreate \in BOOLEAN :
                         \E id \in IF failsCreate THEN {""} ELSE EventIDs :
                           calls' = ListingCall(voice, for) (+) ListingCall(notify, for)
                                    (+) AfterResolve(notify,
                                          create(id)
                                          (+) Announcement(failsCreate, announce(id)))
  /\ tasks' = Return(task)
  /\ UNCHANGED <<now, elapsed, tickPending, pc, loads, cancelled, engineVars,
                 lastDigest, sentReminders, digestNow, started, otherVars>>

-----------------------------------------------------------------------------
(* Gateway (internal/discord/client.go).                                   *)

opDispatch == 0
opHeartbeat == 1
opIdentify == 2
opResume == 6
opReconnect == 7
opInvalidSession == 9
opHello == 10
opHeartbeatAck == 11

IntentGuilds == 1
IntentGuildMessages == 512
IntentMessageContent == 32768

\* time.Millisecond, in the nanoseconds a time.Duration counts
Millisecond == 1000000

\* The token and the intents NewGateway is given by bot.New.
Token == "token"
Intents == IntentGuilds + IntentGuildMessages + IntentMessageContent

\* The scheduler's side of the state, which no gateway operation touches.
schedFrame == <<now, elapsed, tickPending, pc, loads, ticks, engineVars,
                channelCache, dedupVars, digestNow, tasks, started, calls, remote,
                evalOut>>

\* A GatewayPayload read from the connection: op, s (hasSeq says whether the
\* pointer is non-nil), t, and whether d decodes into the type its handler
\* unmarshals it to ("nouser" is a READY payload that decodes and has no
\* user object); interval is the heartbeat_interval of a HELLO that decodes.
NoFrame ==
  [op |-> 0 - 1, hasSeq |-> FALSE, s |-> 0, t |-> "", d |-> "none", interval |-> 0]

HelloIntervals == {500, 2000}

\* A message that is no JSON GatewayPayload: wsjson.Read cannot decode it.
MalformedFrame == [NoFrame EXCEPT !.d = "malformed"]

EventNames == {"READY", "MESSAGE_CREATE"}
Listeners == {"onMessageCreate"}

InboundFrames ==
  {f \in [op : {opDispatch, opHeartbeat, opReconnect, opInvalidSession, opHello,
                opHeartbeatAck},
          hasSeq : BOOLEAN, s : 0..MaxSeq, t : EventNames \cup {""},
          d : {"ok", "bad", "nouser"}, interval : HelloIntervals \cup {0}] :
     /\ ~f.hasSeq => f.s = 0
     /\ (f.op = opHello /\ f.d = "ok") <=> (f.interval # 0)
     /\ (f.op = opDispatch) <=> (f.t # "")
     /\ f.d = "bad" => (f.op = opHello \/ f.t = "READY")
     /\ f.d = "nouser" => f.t = "READY"}

\* NewGateway(token, intents)
GatewayNew ==
  /\ conn = "nil"
  /\ sequence = 0
  /\ sessionID = ""
  /\ handlers = EmptyMap
  /\ gwPc = "new"
  /\ readerPc = "none"
  /\ heartbeatLoops = EmptyBag
  /\ frames = 0
  /\ lastFrame = NoFrame
  /\ sent = {}
  /\ running = EmptyBag

\* Gateway.On(event, handler), called while the bot registers its handlers,
\* before Connect (Bot.Run).
On(event, handler) ==
  /\ gwPc = "new"
  /\ Len(MapGetSeq(handlers, event)) < MaxRegistrations
  /\ handlers' = MapPut(handlers, event, Append(MapGetSeq(handlers, event), handler))
  /\ sent' = {}
  /\ UNCHANGED <<conn, sequence, sessionID, gwPc, readerPc, heartbeatLoops, frames,
                 lastFrame, running, cancelled>>
  /\ UNCHANGED schedFrame

\* Gateway.Connect: the dial succeeds, readLoop is started and Connect waits
\* for the context.
ConnectDial ==
  /\ gwPc = "new"
  /\ conn' = "open"
  /\ readerPc' = "reading"
  /\ gwPc' = "waiting"
  /\ sent' = {}
  /\ UNCHANGED <<sequence, sessionID, handlers, heartbeatLoops, frames, lastFrame,
                 running, cancelled>>
  /\ UNCHANGED schedFrame

\* A failed dial after which the read loop is started all the same.
ConnectDialFails_StartsReader ==
  /\ gwPc = "new"
  /\ gwPc' = "failed"
  /\ readerPc' = "reading"
  /\ sent' = {}
  /\ UNCHANGED <<conn, sequence, sessionID, handlers, heartbeatLoops, frames,
                 lastFrame, running, cancelled>>
  /\ UNCHANGED schedFrame

\* Gateway.Connect: the dial fails and Connect returns the error.
ConnectDialFails ==
  /\ gwPc = "new"
  /\ gwPc' = "failed"
  /\ sent' = {}
  /\ UNCHANGED <<conn, sequence, sessionID, handlers, readerPc, heartbeatLoops,
                 frames, lastFrame, running, cancelled>>
  /\ UNCHANGED schedFrame

\* A Connect that returns without closing the connection.
ConnectReturn_LeavesOpen ==
  /\ gwPc = "waiting"
  /\ cancelled
  /\ gwPc' = "returned"
  /\ sent' = {}
  /\ UNCHANGED <<conn, sequence, sessionID, handlers, readerPc, heartbeatLoops,
                 frames, lastFrame, running, cancelled>>
  /\ UNCHANGED schedFrame

\* Gateway.Connect: the context is done, the connection is closed and Connect
\* returns.
ConnectReturn ==
  /\ gwPc = "waiting"
  /\ cancelled
  /\ conn' = "closed"
  /\ gwPc' = "returned"
  /\ sent' = {}
  /\ UNCHANGED <<sequence, sessionID, handlers, readerPc, heartbeatLoops, frames,
                 lastFrame, running, cancelled>>
  /\ UNCHANGED schedFrame

\* A send that writes nothing.
send_Nothing(wire, frame) == wire

\* Gateway.send(ctx, op, data): the frames a step has written with this one
\* added; the write fails on a connection that is not open.
send(wire, frame) == IF conn = "open" THEN wire \cup {frame} ELSE wire

\* The data of a frame the client writes: the sequence number of a heartbeat,
\* the IdentifyData of an identify.
NoIdentify == [token |-> "", intents |-> 0, os |-> "", browser |-> "", device |-> ""]

IdentifyData ==
  [token |-> Token, intents |-> Intents, os |-> "linux",
   browser |-> "discord-cncf-bots", device |-> "discord-cncf-bots"]

\* An identify that carries no credential.
IdentifyFrame_NoToken ==
  [op |-> opIdentify, seq |-> 0, identify |-> [IdentifyData EXCEPT !.token = ""]]

\* Gateway.identify
IdentifyFrame == [op |-> opIdentify, seq |-> 0, identify |-> IdentifyData]

\* Gateway.sendHeartbeat with the sequence number it reads
HeartbeatFrame(seq) == [op |-> opHeartbeat, seq |-> seq, identify |-> NoIdentify]

\* time.Duration(hello.HeartbeatInterval) * time.Millisecond
Duration(interval) == interval * Millisecond

\* The sequence number taken from every frame, a nil pointer reading as 0.
NextSequence_Unconditional(p, seq) == p.s

\* Gateway.handlePayload, lines 244-248: the sequence number after the frame.
NextSequence(p, seq) == IF p.hasSeq THEN p.s ELSE seq

\* Gateway.dispatch: the listener goroutines started for an event.
Started(event) ==
  BagOfSeq([i \in 1..Len(MapGetSeq(handlers, event)) |->
              [listener |-> MapGetSeq(handlers, event)[i], event |-> event]])

\* A reader that waits for the listeners it started.
ReaderAfterDispatch_Waits(event) ==
  IF MapGetSeq(handlers, event) = <<>> THEN "reading" ELSE "dispatching"

\* Gateway.dispatch, lines 296-298: each listener is started with `go` and
\* dispatch returns; the reader is back in its loop.
ReaderAfterDispatch(event) == "reading"

\* Gateway.dispatch, line 289: ready.User is nil and the reader goroutine
\* panics, which ends the process.
Panics(p) == p.op = opDispatch /\ p.t = "READY" /\ p.d = "nouser"

\* Gateway.readLoop: a frame is read and Gateway.handlePayload handles it.
handlePayload(p) ==
  /\ readerPc = "reading"
  /\ conn = "open"
  /\ frames < MaxFrames
  /\ frames' = frames + 1
  /\ lastFrame' = p
  /\ sequence' = NextSequence(p, sequence)
  /\ IF Panics(p)
     THEN /\ sessionID' = "session"
          /\ readerPc' = "panicked"
          /\ gwPc' = "panicked"
          /\ conn' = "closed"
          /\ heartbeatLoops' = EmptyBag
          /\ running' = EmptyBag
          /\ sent' = {}
     ELSE /\ CASE p.op = opHello ->
                    IF p.d = "bad"
                    THEN sent' = {} /\ UNCHANGED <<heartbeatLoops, sessionID, running>>
                    ELSE /\ BagCardinality(heartbeatLoops) < MaxHeartbeatLoops
                         /\ heartbeatLoops' =
                              heartbeatLoops (+) SetToBag({Duration(p.interval)})
                         /\ sent' = send({}, IdentifyFrame)
                         /\ UNCHANGED <<sessionID, running>>
               [] p.op = opHeartbeat ->
                    /\ sent' = send({}, HeartbeatFrame(sequence'))
                    /\ UNCHANGED <<heartbeatLoops, sessionID, running>>
               [] p.op = opInvalidSession ->
                    /\ sent' = send({}, IdentifyFrame)
                    /\ UNCHANGED <<heartbeatLoops, sessionID, running>>
               [] p.op = opDispatch ->
                    IF p.t = "READY" /\ p.d = "bad"
                    THEN sent' = {} /\ UNCHANGED <<heartbeatLoops, sessionID, running>>
                    ELSE /\ sessionID' = IF p.t = "READY" THEN "session" ELSE sessionID
                         /\ running' = running (+) Started(p.t)
                         /\ sent' = {}
                         /\ UNCHANGED heartbeatLoops
               [] OTHER -> sent' = {} /\ UNCHANGED <<heartbeatLoops, sessionID, running>>
          /\ readerPc' = IF p.op = opDispatch /\ ~(p.t = "READY" /\ p.d = "bad")
                         THEN ReaderAfterDispatch(p.t) ELSE readerPc
          /\ UNCHANGED <<conn, gwPc>>
  /\ UNCHANGED <<handlers, cancelled>>
  /\ UNCHANGED schedFrame

\* Gateway.readLoop: wsjson.Read returns an error and the loop returns.
readLoopError ==
  /\ readerPc = "reading"
  /\ readerPc' = "exited"
  /\ sent' = {}
  /\ UNCHANGED <<conn, sequence, sessionID, handlers, gwPc, heartbeatLoops, frames,
                 lastFrame, running, cancelled>>
  /\ UNCHANGED schedFrame

\* Gateway.readLoop: the message read is not a JSON GatewayPayload, so
\* wsjson.Read returns an error and the loop returns.
readLoopMalformed ==
  /\ readerPc = "reading"
  /\ conn = "open"
  /\ frames < MaxFrames
  /\ frames' = frames + 1
  /\ lastFrame' = MalformedFrame
  /\ readerPc' = "exited"
  /\ sent' = {}
  /\ UNCHANGED <<conn, sequence, sessionID, handlers, gwPc, heartbeatLoops,
                 running, cancelled>>
  /\ UNCHANGED schedFrame

\* Gateway.readLoop, case <-ctx.Done(): the loop returns.
readLoopStop ==
  /\ readerPc = "reading"
  /\ cancelled
  /\ readerPc' = "exited"
  /\ sent' = {}
  /\ UNCHANGED <<conn, sequence, sessionID, handlers, gwPc, heartbeatLoops, frames,
                 lastFrame, running, cancelled>>
  /\ UNCHANGED schedFrame

\* Gateway.heartbeatLoop, case <-ticker.C
heartbeatLoopTick ==
  /\ heartbeatLoops # EmptyBag
  /\ sent' = send({}, HeartbeatFrame(sequence))
  /\ UNCHANGED <<conn, sequence, sessionID, handlers, gwPc, readerPc,
                 heartbeatLoops, frames, lastFrame, running, cancelled>>
  /\ UNCHANGED schedFrame

\* Gateway.heartbeatLoop, case <-ctx.Done()
heartbeatLoopStop(loop) ==
  /\ BagIn(loop, heartbeatLoops)
  /\ cancelled
  /\ heartbeatLoops' = heartbeatLoops (-) SetToBag({loop})
  /\ sent' = {}
  /\ UNCHANGED <<conn, sequence, sessionID, handlers, gwPc, readerPc, frames,
                 lastFrame, running, cancelled>>
  /\ UNCHANGED schedFrame

\* A listener goroutine started by dispatch returns.
listenerReturn(l) ==
  /\ running' = running (-) SetToBag({l})
  /\ sent' = {}
  /\ UNCHANGED <<conn, sequence, sessionID, handlers, gwPc, readerPc,
                 heartbeatLoops, frames, lastFrame, cancelled>>
  /\ UNCHANGED schedFrame

\* A listener goroutine started by dispatch panics: nothing recovers it, which
\* ends the process, the reader and every other goroutine with it.
listenerPanics(l) ==
  /\ BagIn(l, running)
  /\ gwPc \in {"waiting", "returned"}
  /\ readerPc' = "panicked"
  /\ gwPc' = "panicked"
  /\ conn' = "closed"
  /\ heartbeatLoops' = EmptyBag
  /\ running' = EmptyBag
  /\ sent' = {}
  /\ UNCHANGED <<sequence, sessionID, handlers, frames, lastFrame, cancelled>>
  /\ UNCHANGED schedFrame

\* The top-level context is cancelled (signal.NotifyContext in main).
gatewayCancel ==
  /\ ~cancelled
  /\ cancelled' = TRUE
  /\ sent' = {}
  /\ UNCHANGED <<conn, sequence, sessionID, handlers, gwPc, readerPc,
                 heartbeatLoops, frames, lastFrame, running>>
  /\ UNCHANGED schedFrame

GatewayInit ==
  /\ GatewayNew
  /\ SchedulerNew
  /\ SchedulerIdle
  /\ evalOut = NotEvaluated

GatewayNext ==
  \/ \E event \in EventNames, handler \in Listeners : On(event, handler)
  \/ ConnectDial
  \/ ConnectDialFails
  \/ ConnectReturn
  \/ \E p \in InboundFrames : handlePayload(p)
  \/ readLoopError
  \/ readLoopMalformed
  \/ readLoopStop
  \/ heartbeatLoopTick
  \/ \E loop \in BagToSet(heartbeatLoops) : heartbeatLoopStop(loop)
  \/ \E l \in BagToSet(running) : listenerReturn(l)
  \/ \E l \in BagToSet(running) : listenerPanics(l)
  \/ gatewayCancel

GatewaySpec == GatewayInit /\ [][GatewayNext]_vars

-----------------------------------------------------------------------------
(* The schedule engine on its own.                                         *)

Init ==
  /\ SchedulerNew
  /\ SchedulerIdle
  /\ evalOut = NotEvaluated
  /\ GatewayNew

Next ==
  \/ \E config \in Configs : RunLoad(config)
  \/ RunLoadFails
  \/ \E config \in Configs : Reload(config)
  \/ ReloadFails
  \/ Advance
  \/ TickStart
  \/ checkDigest
  \/ sendDailyDigest
  \/ checkReminders
  \/ checkSchedules
  \/ \E task \in BagToSet(tasks) : sendReminder(task)
  \/ \E task \in BagToSet(tasks) : triggerSchedule(task)

Spec == Init /\ [][Next]_vars

-----------------------------------------------------------------------------
(* One tick of a loaded engine, with the goroutines it starts, against a    *)
(* guild whose channel listing may lack a channel.                          *)

\* Guilds without the notify channel and without the voice channel of the
\* schedules.
ListingNoEvents == ("general" :> "c1") @@ ("voice" :> "c2")
ListingNoVoice == ("general" :> "c1") @@ ("events" :> "c3")

TickListings == {Listing, ListingNoEvents, ListingNoVoice}

\* The instants of the ticks: the start instant and the minutes after it.
TickInstants == {start + k : start \in StartInstants, k \in 0..MaxAdvance}

\* The engine after New and one Load of a configuration, at the moment the
\* ticker's channel delivers a tick.
TickInit ==
  /\ \E config \in Configs :
       /\ schedules = config.Schedules
       /\ digestTime = config.DigestTime
       /\ digestChannel = config.DigestChannel
       /\ reminderMinutes = IF Len(config.ReminderMinutes) > 0
                            THEN config.ReminderMinutes ELSE <<60, 15>>
  /\ channelCache = EmptyMap
  /\ lastCreated = EmptyMap
  /\ lastDigest = ""
  /\ sentReminders = {}
  /\ now \in TickInstants
  /\ remote \in TickListings
  /\ elapsed = 0
  /\ tickPending = FALSE
  /\ pc = "checkDigest"
  /\ loads = 1
  /\ cancelled = FALSE
  /\ ticks = 1
  /\ digestNow = NoTime
  /\ tasks = EmptyBag
  /\ started = EmptyBag
  /\ calls = EmptyBag
  /\ evalOut = NotEvaluated
  /\ GatewayNew

TickNext ==
  \/ checkDigest
  \/ sendDailyDigest
  \/ checkReminders
  \/ checkSchedules
  \/ \E task \in BagToSet(tasks) : sendReminder(task)
  \/ \E task \in BagToSet(tasks) : triggerSchedule(task)

TickSpec == TickInit /\ [][TickNext]_vars

-----------------------------------------------------------------------------
(* The whole bot from Bot.Run to the end of the process: the scheduler's   *)
(* loop and the gateway side by side, under one context.                  *)

\* Scheduler.Run, case <-ctx.Done(): the loop returns (and the deferred
\* ticker.Stop runs).
RunStop ==
  /\ pc = "idle"
  /\ cancelled
  /\ pc' = "stopped"
  /\ calls' = EmptyBag
  /\ UNCHANGED <<now, elapsed, tickPending, loads, engineVars, channelCache,
                 dedupVars, digestNow, tasks, started, otherVars, cancelled>>

\* The configuration file of the run (a digest and a creation fall due in it,
\* no reminder does), and the frames the server sends in it (handshakes only;
\* no listener is registered).
ShutdownConfigs == {CfgBKK}
ShutdownFrames ==
  {f \in InboundFrames : f.op = opHello /\ f.d = "ok" /\ ~f.hasSeq /\ f.interval = 500}

\* One step of a pass of checkAll.
checkAll == checkDigest \/ sendDailyDigest \/ checkReminders \/ checkSchedules

RunStart == (\E config \in ShutdownConfigs : RunLoad(config)) \/ RunLoadFails

Connect == ConnectDial \/ ConnectDialFails

ShutdownNext ==
  \/ \E config \in ShutdownConfigs : RunLoad(config)
  \/ RunLoadFails
  \/ Advance
  \/ TickStart
  \/ checkDigest
  \/ sendDailyDigest
  \/ checkReminders
  \/ checkSchedules
  \/ \E task \in BagToSet(tasks) : triggerSchedule(task)
  \/ RunStop
  \/ ConnectDial
  \/ ConnectDialFails
  \/ ConnectReturn
  \/ \E p \in ShutdownFrames : handlePayload(p)
  \/ readLoopError
  \/ readLoopStop
  \/ heartbeatLoopTick
  \/ \E loop \in BagToSet(heartbeatLoops) : heartbeatLoopStop(loop)
  \/ gatewayCancel

\* Every goroutine that can run does run: Run gets through its Load and each
\* pass of a tick returns, a select with a ready case takes one, Connect dials
\* and, once the context is done, closes and returns.  Nothing obliges the
\* signal to arrive, the clock to advance or the server to send.
ShutdownFairness ==
  /\ WF_vars(RunStart)
  /\ WF_vars(checkAll)
  /\ WF_vars(RunStop)
  /\ WF_vars(Connect)
  /\ WF_vars(ConnectReturn)
  /\ WF_vars(readLoopStop)
  /\ WF_vars(\E loop \in BagToSet(heartbeatLoops) : heartbeatLoopStop(loop))

ShutdownSpec == Init /\ [][ShutdownNext]_vars /\ ShutdownFairness

-----------------------------------------------------------------------------
(* The evaluations of one pass, applied to a single schedule at any minute *)
(* of a span of days: shouldTrigger and the reminder condition.            *)

LateShow ==
  [Name |-> "Late Show", VoiceChannel |-> "voice", NotifyChannel |-> "events",
   Days |-> <<"sunday", "monday">>, Time |-> "00:30", Timezone |-> "UTC",
   DurationMinutes |-> 60]

Workshop ==
  [Standup EXCEPT !.Name = "Workshop", !.Days = <<"Monday", "Tuesday">>]

Seminar == [Standup EXCEPT !.Name = "Seminar", !.Days = <<"MONDAY", "WEDNESDAY">>]

NoZone == [Standup EXCEPT !.Timezone = "Mars/Olympus"]
OneField == [Standup EXCEPT !.Time = "1700"]
ThreeFields == [Standup EXCEPT !.Time = "17:00:00"]
NonNumeric == [Standup EXCEPT !.Time = "ab:cd"]

EvalSchedules ==
  {Standup, StandupNY, StandupBKK, Workshop, Seminar, LateShow, NoZone, OneField,
   ThreeFields, NonNumeric}

EvalLeads == {15, 60}

\* Every minute from Sunday 2025-01-26 00:00 UTC on.
EvalInstants == MinutesPerDay .. (MinutesPerDay + EvalDays * MinutesPerDay - 1)

EvalMarks(schedule) ==
  {EmptyMap} \cup {(schedule.Name :> d) : d \in {"2025-01-27", "2025-01-28"}}

EvalInit ==
  /\ now \in EvalInstants
  /\ \E schedule \in EvalSchedules :
       /\ schedules = <<schedule>>
       /\ \/ /\ lastCreated \in EvalMarks(schedule)
             /\ reminderMinutes = <<60, 15>>
             /\ sentReminders = {}
          \/ /\ lastCreated = EmptyMap
             /\ \E mins \in EvalLeads :
                  /\ reminderMinutes = <<mins>>
                  /\ sentReminders \in
                       {{}, {ReminderKey(schedule.Name, "2025-01-26", mins)}}
  /\ digestTime = ""
  /\ digestChannel = ""
  /\ channelCache = EmptyMap
  /\ lastDigest = ""
  /\ elapsed = 0
  /\ tickPending = FALSE
  /\ pc = "eval"
  /\ loads = 1
  /\ cancelled = FALSE
  /\ ticks = 0
  /\ digestNow = NoTime
  /\ tasks = EmptyBag
  /\ started = EmptyBag
  /\ calls = EmptyBag
  /\ remote = Listing
  /\ evalOut = NotEvaluated
  /\ GatewayNew

\* The keys of the sendReminder goroutines in a list of spawned goroutines.
KeysOf(spawned) == {spawned[i].key : i \in 1..Len(spawned)}

\* The reminder condition of schedule for lead-time mins at instant t, for a
\* schedule the pass looks at.
MatchAt(schedule, t, mins) ==
  /\ ReminderConsidered(schedule, t)
  /\ ReminderTimeMatches(In(t, schedule.Timezone),
                         EventTime(schedule, In(t, schedule.Timezone)), mins)

\* todayEvents of a digest sent at instant t for the schedule list.
DigestList(scheds, t) ==
  IF LoadLocationOk(scheds[1].Timezone)
  THEN TodayEvents(scheds, ToLower(Weekday(In(t, scheds[1].Timezone))))
  ELSE <<>>

\* shouldTrigger, the reminder pass and the digest list applied to the
\* schedule at now.
Evaluate ==
  /\ pc = "eval"
  /\ ~evalOut.done
  /\ evalOut' =
       [done |-> TRUE,
        trigger |-> shouldTrigger(schedules[1], now),
        reminders |-> KeysOf(AllReminderSpawns(schedules, now, reminderMinutes,
                                               sentReminders)),
        today |-> DigestList(schedules, now),
        match |-> MatchAt(schedules[1], now, reminderMinutes[1]),
        matchBefore |-> MatchAt(schedules[1], now - 1, reminderMinutes[1]),
        matchAfter |-> MatchAt(schedules[1], now + 1, reminderMinutes[1])]
  /\ UNCHANGED <<now, elapsed, tickPending, pc, loads, cancelled, ticks,
                 engineVars, channelCache, dedupVars, digestNow, tasks, started,
                 calls, remote, gwVars>>

EvalNext == Evaluate

EvalSpec == EvalInit /\ [][EvalNext]_vars

-----------------------------------------------------------------------------
(* Channel resolution on its own: resolveChannelID applied to any name,    *)
(* from any cache, against a listing that may change between calls.        *)

ResolveNames == {"general", "voice", "events", "lobby"}

\* The guild after a channel was recreated under its old name and another
\* was removed.
ListingRenamed == ("general" :> "c9") @@ ("voice" :> "c2")

ResolveListings == {Listing, ListingRenamed, EmptyMap}

ResolveCaches == {EmptyMap, ("general" :> "c1"), ("voice" :> "c2") @@ ("old" :> "c0")}

NotResolved == [done |-> FALSE]

ResolveInit ==
  /\ channelCache \in ResolveCaches
  /\ remote \in ResolveListings
  /\ evalOut = NotResolved
  /\ schedules = <<>>
  /\ digestTime = ""
  /\ digestChannel = ""
  /\ reminderMinutes = <<60, 15>>
  /\ lastCreated = EmptyMap
  /\ lastDigest = ""
  /\ sentReminders = {}
  /\ now \in StartInstants
  /\ elapsed = 0
  /\ tickPending = FALSE
  /\ pc = "resolve"
  /\ loads = 0
  /\ cancelled = FALSE
  /\ ticks = 0
  /\ digestNow = NoTime
  /\ tasks = EmptyBag
  /\ started = EmptyBag
  /\ calls = EmptyBag
  /\ GatewayNew

\* s.resolveChannelID(ctx, channelName), with what it was given and what it
\* returned.
Resolve(channelName) ==
  /\ pc = "resolve"
  /\ \E fails \in ListingOutcomes(channelCache, channelName) :
       LET res == resolveChannelID(channelCache, channelName, fails, remote)
       IN  /\ channelCache' = res.cache
           /\ calls' = ListingCall(res, <<"resolve", channelName>>)
           /\ evalOut' = [done |-> TRUE, name |-> channelName, ok |-> res.ok,
                          id |-> res.id, err |-> res.err, fails |-> fails]
  /\ UNCHANGED <<now, elapsed, tickPending, pc, loads, cancelled, ticks, engineVars,
                 dedupVars, digestNow, tasks, started, remote, gwVars>>

\* The guild's channels change.
ListingChanges ==
  /\ pc = "resolve"
  /\ remote' \in ResolveListings \ {remote}
  /\ calls' = EmptyBag
  /\ UNCHANGED <<now, elapsed, tickPending, pc, loads, cancelled, ticks, engineVars,
                 channelCache, dedupVars, digestNow, tasks, started, evalOut, gwVars>>

ResolveNext ==
  \/ \E channelName \in ResolveNames : Resolve(channelName)
  \/ ListingChanges

ResolveSpec == ResolveInit /\ [][ResolveNext]_vars

-----------------------------------------------------------------------------
(* What the specification says, stated without the code's time functions:  *)
(* minutes of the day and day numbers in a zone, by arithmetic.            *)

\* The minute of the day a well-formed "HH:MM" names.
MinuteOfDayOf ==
  ("17:00" :> 1020) @@ ("17:01" :> 1021) @@ ("17:02" :> 1022)
  @@ ("18:00" :> 1080) @@ ("12:00" :> 720) @@ ("00:00" :> 0) @@ ("00:01" :> 1)
  @@ ("00:30" :> 30) @@ ("00:59" :> 59)

WellFormedTime(s) == s \in DOMAIN MinuteOfDayOf

LocalMinuteOfDay(t, zone) == (t + ZoneOffset[zone]) % MinutesPerDay
LocalDay(t, zone) == (t + ZoneOffset[zone]) \div MinutesPerDay

LowerWeekdays ==
  <<"sunday", "monday", "tuesday", "wednesday", "thursday", "friday", "saturday">>

\* The weekday of a day number, in lower case.
LowerWeekdayOf(day) == LowerWeekdays[((day + EpochWeekday) % 7) + 1]

\* schedule's weekday set contains the weekday of the day, whatever the case
\* the configuration spells it in.
OccursOn(schedule, day) ==
  LowerWeekdayOf(day) \in {ToLower(schedule.Days[i]) : i \in 1..Len(schedule.Days)}

\* The creation condition of the specification, apart from the mark.
CreationMatches(schedule, t) ==
  /\ LoadLocationOk(schedule.Timezone)
  /\ WellFormedTime(schedule.Time)
  /\ OccursOn(schedule, LocalDay(t, schedule.Timezone) + 1)
  /\ LocalMinuteOfDay(t, schedule.Timezone) = MinuteOfDayOf[schedule.Time]

\* The local minute is the minute of (occurrence time - lead).
ReminderMinuteMatches(schedule, t, mins) ==
  /\ LoadLocationOk(schedule.Timezone)
  /\ WellFormedTime(schedule.Time)
  /\ LocalMinuteOfDay(t, schedule.Timezone)
       = (MinuteOfDayOf[schedule.Time] - mins) % MinutesPerDay

\* The instant t is the instant (today's occurrence start - lead): today is
\* one of the schedule's days and t is mins minutes before today's start.
ReminderInstantMatches(schedule, t, mins) ==
  /\ LoadLocationOk(schedule.Timezone)
  /\ WellFormedTime(schedule.Time)
  /\ OccursOn(schedule, LocalDay(t, schedule.Timezone))
  /\ t = LocalDay(t, schedule.Timezone) * MinutesPerDay
         + MinuteOfDayOf[schedule.Time] - ZoneOffset[schedule.Timezone] - mins

\* The digest time of day is the local minute in the first schedule's zone.
DigestMatches(t) ==
  /\ Len(schedules) > 0
  /\ LoadLocationOk(schedules[1].Timezone)
  /\ WellFormedTime(digestTime)
  /\ LocalMinuteOfDay(t, schedules[1].Timezone) = MinuteOfDayOf[digestTime]

Times(id) == CopiesIn(id, started)

\* The schedules some configuration holds, and the instants of the window.
LoadedSchedules ==
  UNION {{config.Schedules[i] : i \in 1..Len(config.Schedules)} : config \in Configs}

Instants == {start + k : start \in StartInstants, k \in 0..MaxAdvance}

-----------------------------------------------------------------------------
(* Claims.                                                                 *)

\* C1: for every schedule name and date, the creation action is started at
\* most once, over any ticks and any interleaving of the tick loop with the
\* triggerSchedule goroutines it starts.
C1_CreationAtMostOnce ==
  \A id \in BagToSet(started) : id[1] = "create" => Times(id) <= 1

\* C2: for every schedule name, date and lead-time, the reminder action is
\* started at most once, over any ticks and any interleaving of the tick loop
\* with the sendReminder goroutines it starts.
C2_ReminderAtMostOnce ==
  \A id \in BagToSet(started) : id[1] = "remind" => Times(id) <= 1

\* C3: the daily digest is posted at most once per calendar date, over any
\* ticks and any loads, also loads that change the first schedule's zone.
C3_DigestAtMostOnce ==
  \A id \in BagToSet(started) : id[1] = "digest" => Times(id) <= 1

\* C4: for every schedule S, also one whose time of day is not a well-formed
\* HH:MM, shouldTrigger(S, now) is true exactly when, in S's own zone, the
\* weekday of the next calendar day is one of S.days, the hour and minute are
\* those of S.time, and the date recorded for S.Name is not the next day's.
C4_ShouldTriggerIff ==
  evalOut.done =>
    LET schedule == schedules[1]
    IN  evalOut.trigger <=>
          /\ CreationMatches(schedule, now)
          /\ MapGet(lastCreated, schedule.Name)
               # DateStrings[LocalDay(now, schedule.Timezone) + 2]

\* C5: a reminder for S (with a well-formed time of day) and lead L is
\* started at a tick exactly when the instant, to the minute, is today's
\* occurrence start in S's zone minus L minutes, and (S, date, L) is unmarked;
\* also for leads that carry start - L to the previous calendar day.
C5_ReminderIffInstant ==
  (evalOut.done /\ WellFormedTime(schedules[1].Time)) =>
    LET schedule == schedules[1]
    IN  \A i \in 1..Len(reminderMinutes) :
          \A d \in {"2025-01-25", "2025-01-26", "2025-01-27", "2025-01-28"} :
            LET mins == reminderMinutes[i]
                key == ReminderKey(schedule.Name, d, mins)
            IN  key \in evalOut.reminders <=>
                  /\ LoadLocationOk(schedule.Timezone)
                  /\ d = DateStrings[LocalDay(now, schedule.Timezone) + 1]
                  /\ ReminderInstantMatches(schedule, now, mins)
                  /\ key \notin sentReminders

\* C8: the reminder condition is exact to the minute: for an occurrence at
\* local time T and lead L it holds at a tick whose local hour and minute are
\* those of T - L, and at neither the minute before nor the minute after.
C8_ReminderExactMinute ==
  (evalOut.done /\ WellFormedTime(schedules[1].Time)) =>
    LET schedule == schedules[1]
        mins == reminderMinutes[1]
        today == LoadLocationOk(schedule.Timezone)
                 /\ OccursOn(schedule, LocalDay(now, schedule.Timezone))
    IN  /\ evalOut.match <=> (today /\ ReminderMinuteMatches(schedule, now, mins))
        /\ evalOut.match => ~evalOut.matchBefore /\ ~evalOut.matchAfter

\* C8 witness: lead 60 for an occurrence at 17:00 matched at 16:00 local.
C8_Witness ==
  /\ evalOut.done
  /\ evalOut.match
  /\ schedules[1].Time = "17:00"
  /\ reminderMinutes[1] = 60
  /\ LocalMinuteOfDay(now, schedules[1].Timezone) = 16 * 60

\* C6: Load changes only the schedule list and the engine parameters: the
\* last-created map, the sent-reminder marks and the last-digest date are the
\* same before and after, so a mark under a name the new list keeps still
\* makes shouldTrigger false for the marked date, and a name that was never
\* marked has no mark after the load.
C6_LoadKeepsDedup ==
  [][loads' # loads =>
       /\ UNCHANGED <<lastCreated, sentReminders, lastDigest>>
       /\ \A schedule \in LoadedSchedules :
            (\E i \in 1..Len(schedules') : schedules'[i] = schedule) =>
              IF schedule.Name \in DOMAIN lastCreated
              THEN (/\ LoadLocationOk(schedule.Timezone)
                    /\ lastCreated[schedule.Name] = TriggerDateKey(schedule, now))
                   => ~shouldTrigger(schedule, now)'
              ELSE MapGet(lastCreated', schedule.Name) = ""]_vars

\* C6 witness: a reload has just loaded a list that keeps a marked name, at
\* an instant where only the mark keeps that schedule from triggering, next
\* to a schedule under a new name that triggers.
C6_Witness ==
  /\ loads >= 2
  /\ sentReminders # {}
  /\ lastDigest # ""
  /\ \E i, j \in 1..Len(schedules) :
       /\ schedules[i].Name \in DOMAIN lastCreated
       /\ CreationMatches(schedules[i], now)
       /\ ~shouldTrigger(schedules[i], now)
       /\ schedules[j].Name \notin DOMAIN lastCreated
       /\ shouldTrigger(schedules[j], now)

\* C7: creation evaluation is idempotent per target date: once a creation is
\* recorded for (S, D), every later evaluation of S whose next-day date is D
\* returns false, and once a pass has triggered the creation for S, evaluating
\* S again at the same instant does not trigger it again.
C7_EvaluationIdempotent ==
  [][/\ \A schedule \in LoadedSchedules : \A t \in Instants :
          (/\ t = now'
           /\ \E i \in 1..Len(schedules') : schedules'[i] = schedule
           /\ LoadLocationOk(schedule.Timezone)
           /\ MapGet(lastCreated, schedule.Name) = TriggerDateKey(schedule, t))
          => ~shouldTrigger(schedule, t)'
     /\ (pc = "checkSchedules" /\ pc' = "idle") =>
          \A schedule \in LoadedSchedules : \A t \in Instants :
            (/\ t = now
             /\ \E i \in 1..Len(schedules) : schedules[i] = schedule
             /\ shouldTrigger(schedule, t))
            => ~shouldTrigger(schedule, t)']_vars

\* C9: a pass of a tick at which no digest time, no reminder target minute
\* and no creation condition matches starts no task, makes no outbound call
\* and leaves the dedup state as it is.
NothingMatches(t) ==
  /\ ~DigestMatches(t)
  /\ \A i \in 1..Len(schedules) :
       /\ ~CreationMatches(schedules[i], t)
       /\ \A k \in 1..Len(reminderMinutes) :
            ~ReminderMinuteMatches(schedules[i], t, reminderMinutes[k])

C9_QuietTick ==
  [][(/\ pc \in {"checkDigest", "checkReminders", "checkSchedules"}
      /\ pc' # pc
      /\ NothingMatches(now))
     => /\ tasks' = tasks
        /\ started' = started
        /\ calls' = EmptyBag
        /\ pc' # "sendDailyDigest"
        /\ UNCHANGED <<lastCreated, sentReminders, lastDigest>>]_vars

\* C9 witness: two ticks, one in each of the first two minutes, have been
\* evaluated on a loaded schedule list and nothing has been started, called
\* or marked.
C9_Witness ==
  /\ ticks = 2 /\ elapsed = 2
  /\ pc = "idle"
  /\ Len(schedules) > 0
  /\ digestTime # ""
  /\ started = EmptyBag /\ tasks = EmptyBag
  /\ lastCreated = EmptyMap /\ sentReminders = {} /\ lastDigest = ""

\* C10: within one session the stored last-seen sequence number never
\* decreases, whatever sequence values the received frames carry.
C10_SequenceNeverDecreases == [][sequence' >= sequence]_vars

\* C10 as amended: the stored sequence number is the value carried by the
\* most recent frame that carried one, and a frame without one leaves it, so
\* it decreases only when a frame carries a smaller value than the stored one.
C10_SequenceIsLastCarried ==
  [][/\ frames' # frames =>
          sequence' = (IF lastFrame'.hasSeq THEN lastFrame'.s ELSE sequence)
     /\ frames' = frames => sequence' = sequence
     /\ sequence' < sequence => (lastFrame'.hasSeq /\ lastFrame'.s < sequence)]_vars

\* C10 witness: a frame without a sequence number has just been handled and
\* the stored number is still the one an earlier frame carried.
C10_Witness ==
  /\ frames >= 2
  /\ ~lastFrame.hasSeq
  /\ sequence > 0

-----------------------------------------------------------------------------
(* Gateway: the end of a connect attempt.                                  *)

\* C11: when a RECONNECT frame has been handled, or a read has failed, the
\* read loop has ended and Connect returns to its caller without waiting for
\* the cancellation signal; Connect never dials a second time.
C11_ReconnectEndsConnect ==
  [][/\ (frames' # frames /\ lastFrame'.op = opReconnect) => readerPc' = "exited"
     /\ gwPc # "new" => gwPc' # "new"]_vars

\* C12: when the dial fails Connect returns the error, and from then on the
\* connection handle is unset, no reader and no heartbeat task exists, no
\* frame is read or written, and Connect does not dial again.
C12_DialFailureIsFinal ==
  [][/\ gwPc' = "failed" =>
          /\ conn' = "nil"
          /\ readerPc' = "none"
          /\ heartbeatLoops' = EmptyBag
          /\ frames' = 0
          /\ sent' = {}
     /\ gwPc = "failed" => gwPc' = "failed"
     /\ (gwPc = "new" /\ gwPc' # "new" /\ conn' = "nil") => gwPc' = "failed"]_vars

\* C12 witness: the dial has failed, and the process has gone on (the
\* cancellation signal has arrived) with nothing started.
C12_Witness ==
  /\ gwPc = "failed"
  /\ cancelled
  /\ conn = "nil" /\ readerPc = "none"

\* C13: a HELLO frame whose payload cannot be decoded aborts the connect
\* attempt (the read loop ends, the failure reaching the caller of Connect),
\* and starts no heartbeat task and sends no Identify.
C13_BadHelloAborts ==
  [][(frames' # frames /\ lastFrame'.op = opHello /\ lastFrame'.d = "bad") =>
       /\ heartbeatLoops' = heartbeatLoops
       /\ sent' = {}
       /\ readerPc' = "exited"]_vars

-----------------------------------------------------------------------------
(* Gateway: the handshake.                                                 *)

\* The Identify frame the protocol asks for: the credential, the intents
\* bit-flags and the client descriptor.
ExpectedIdentify ==
  [op |-> opIdentify, seq |-> 0,
   identify |-> [token |-> Token,
                 intents |-> IntentGuilds + IntentGuildMessages + IntentMessageContent,
                 os |-> "linux", browser |-> "discord-cncf-bots",
                 device |-> "discord-cncf-bots"]]

\* C19: handling a HELLO that decodes starts one heartbeat task whose period
\* is the heartbeat_interval of the payload, in milliseconds, and writes one
\* Identify frame with the credential, the intents and the descriptor; a
\* heartbeat task is started by nothing else, and an Identify frame is
\* written only by the step that handles a HELLO or an INVALID_SESSION.
C19_HelloStartsHeartbeatThenIdentifies ==
  [][/\ (frames' # frames /\ lastFrame'.op = opHello /\ lastFrame'.d = "ok") =>
          /\ heartbeatLoops' =
               heartbeatLoops (+) SetToBag({lastFrame'.interval * 1000000})
          /\ sent' = {ExpectedIdentify}
     /\ BagCardinality(heartbeatLoops') > BagCardinality(heartbeatLoops) =>
          (frames' # frames /\ lastFrame'.op = opHello /\ lastFrame'.d = "ok")
     /\ \A f \in sent' :
          f.op = opIdentify =>
            (frames' # frames /\ lastFrame'.op \in {opHello, opInvalidSession})]_vars

\* C19 witness: a HELLO with interval 2000 ms has just been handled: its
\* heartbeat task runs and the Identify frame has been written.
C19_Witness ==
  /\ lastFrame.op = opHello /\ lastFrame.interval = 2000
  /\ BagIn(2000 * 1000000, heartbeatLoops)
  /\ sent = {ExpectedIdentify}

\* C20: handling an INVALID_SESSION writes one Identify frame, the same as
\* the first one, and no step ever writes a RESUME frame.
C20_InvalidSessionReidentifies ==
  [][/\ (frames' # frames /\ lastFrame'.op = opInvalidSession) =>
          sent' = {ExpectedIdentify}
     /\ \A f \in sent' : f.op # opResume]_vars

\* C20 witness: a session was established (READY seen) and an INVALID_SESSION
\* has just been answered with an Identify.
C20_Witness ==
  /\ lastFrame.op = opInvalidSession
  /\ sessionID # ""
  /\ \E f \in sent : f.op = opIdentify

-----------------------------------------------------------------------------
(* Gateway: registering listeners and dispatching to them.                 *)

\* One listener task per registration under the event name: the bag in which
\* a listener occurs as often as it is registered for event.
Registered(event) ==
  LET list == MapGetSeq(handlers, event)
      names == {list[i] : i \in 1..Len(list)}
  IN  [r \in {[listener |-> h, event |-> event] : h \in names} |->
         Cardinality({i \in 1..Len(list) : list[i] = r.listener})]

\* A registration appends one listener to the list of one event name and
\* leaves every other list as it is.
Appends ==
  \E event \in EventNames, handler \in Listeners :
    /\ MapGetSeq(handlers', event) = Append(MapGetSeq(handlers, event), handler)
    /\ \A other \in EventNames \ {event} :
         MapGetSeq(handlers', other) = MapGetSeq(handlers, other)

\* C16: handling a DISPATCH frame for event name E starts one task for every
\* registration made under E before, a listener registered twice running
\* twice, and none for a registration under another name, whatever the
\* payload; a registration only appends to the list of its name.
C16_DispatchInvokesAllRegistered ==
  [][/\ (frames' # frames /\ lastFrame'.op = opDispatch) =>
          /\ running' = running (+) Registered(lastFrame'.t)
          /\ handlers' = handlers
     /\ handlers' # handlers => Appends]_vars

-----------------------------------------------------------------------------
(* Schedule engine: what Load installs.                                    *)

\* C15: after a successful Load the schedule list, the digest time, the digest
\* channel and the reminder lead-times are those of the loaded configuration,
\* also when its reminder list is empty.  (The configurations differ in their
\* schedule lists, so the list in force tells which one was loaded last; a
\* failed Load changes none of the four.)
C15_LoadInstallsConfiguration ==
  Len(schedules) > 0 =>
    \E config \in Configs :
      /\ schedules = config.Schedules
      /\ digestTime = config.DigestTime
      /\ digestChannel = config.DigestChannel
      /\ reminderMinutes = config.ReminderMinutes

-----------------------------------------------------------------------------
(* Channel resolution.                                                     *)

\* The call the step made to the channel-listing API, if it made one.
ListingCalls(made) == {c \in BagToSet(made) : c.api = "GetGuildChannels"}

\* C17: resolve(name) returns the cached identifier and calls nothing when
\* name is cached; otherwise it makes one listing call, and then either the
\* call fails, an error is returned and the cache is as before, or every
\* entry of the listing is in the cache (the entries of other names being
\* kept) and the result is the listed identifier of name, or a not-found
\* error when the listing has no such name.
C17_Resolve ==
  [][(evalOut'.done /\ remote' = remote) =>
       LET name == evalOut'.name
       IN  IF name \in DOMAIN channelCache
           THEN /\ evalOut'.ok /\ evalOut'.id = channelCache[name]
                /\ calls' = EmptyBag
                /\ channelCache' = channelCache
           ELSE /\ Cardinality(ListingCalls(calls')) = 1
                /\ BagCardinality(calls') = 1
                /\ IF evalOut'.fails
                   THEN /\ ~evalOut'.ok /\ evalOut'.err = "get guild channels"
                        /\ channelCache' = channelCache
                   ELSE /\ \A n \in DOMAIN remote :
                             n \in DOMAIN channelCache' /\ channelCache'[n] = remote[n]
                        /\ \A n \in DOMAIN channelCache \ DOMAIN remote :
                             n \in DOMAIN channelCache' /\ channelCache'[n] = channelCache[n]
                        /\ DOMAIN channelCache' = DOMAIN channelCache \cup DOMAIN remote
                        /\ IF name \in DOMAIN remote
                           THEN evalOut'.ok /\ evalOut'.id = remote[name]
                           ELSE ~evalOut'.ok /\ evalOut'.err = "channel not found"]_vars

\* C17 witness: a name that was not cached has been resolved from a listing
\* of three channels, all of which are now cached beside an older entry.
C17_Witness ==
  /\ evalOut.done /\ evalOut.ok /\ evalOut.name = "events" /\ evalOut.id = "c3"
  /\ calls # EmptyBag
  /\ DOMAIN channelCache = {"general", "voice", "events", "old"}

-----------------------------------------------------------------------------
(* Weekday names in any letter case.                                       *)

\* The lower-case spelling of a weekday name of a configuration.
LowerSpelling(day) ==
  CASE day \in {"Sunday", "SUNDAY"} -> "sunday"
    [] day \in {"Monday", "MONDAY"} -> "monday"
    [] day \in {"Tuesday", "TUESDAY"} -> "tuesday"
    [] day \in {"Wednesday", "WEDNESDAY"} -> "wednesday"
    [] day \in {"Thursday", "THURSDAY"} -> "thursday"
    [] day \in {"Friday", "FRIDAY"} -> "friday"
    [] day \in {"Saturday", "SATURDAY"} -> "saturday"
    [] OTHER -> day

\* The schedule with its days spelled in lower case.
InLowerCase(schedule) ==
  [schedule EXCEPT !.Days = [i \in 1..Len(schedule.Days) |->
                               LowerSpelling(schedule.Days[i])]]

\* The lower-case weekday name of the local day of instant t in zone.
LowerWeekdayAt(t, zone) == LowerWeekdayOf(LocalDay(t, zone))

\* C18: a schedule whose days are written in any letter case gives, at every
\* instant, the creation decision, the reminders and the digest list that the
\* same schedule with its days in lower case gives, and these follow the
\* weekday of the schedule's zone: no creation unless tomorrow is one of the
\* days, no reminder and no digest entry unless today is.
C18_WeekdayCaseInsensitive ==
  evalOut.done =>
    LET schedule == schedules[1]
        lower == InLowerCase(schedule)
        days == {lower.Days[i] : i \in 1..Len(lower.Days)}
    IN  /\ evalOut.trigger = shouldTrigger(lower, now)
        /\ evalOut.reminders =
             KeysOf(AllReminderSpawns(<<lower>>, now, reminderMinutes, sentReminders))
        /\ evalOut.today = DigestList(<<lower>>, now)
        /\ LoadLocationOk(schedule.Timezone) =>
             /\ evalOut.trigger =>
                  LowerWeekdayAt(now + MinutesPerDay, schedule.Timezone) \in days
             /\ evalOut.reminders # {} =>
                  LowerWeekdayAt(now, schedule.Timezone) \in days
             /\ (evalOut.today # <<>>) <=>
                  (LowerWeekdayAt(now, schedule.Timezone) \in days)

\* C18 witness: a schedule with its days in upper case has a reminder started
\* and is listed for the digest on one of those days.
C18_Witness ==
  /\ evalOut.done
  /\ schedules[1].Days = <<"MONDAY", "WEDNESDAY">>
  /\ evalOut.reminders # {}
  /\ evalOut.today = <<"Seminar">>

-----------------------------------------------------------------------------
(* Cancellation.                                                           *)

\* Nothing of the bot runs any more: the tick loop, the reader and every
\* heartbeat task have returned, Connect has returned and the connection is
\* not open.
AllStopped ==
  /\ pc = "stopped"
  /\ readerPc # "reading"
  /\ heartbeatLoops = EmptyBag
  /\ gwPc \in {"returned", "failed"}
  /\ conn # "open"

\* C14: once the context is cancelled, the tick loop, the reader and every
\* heartbeat task eventually return, the connection is closed and Connect
\* returns, and it stays so; a tick loop that has returned evaluates no
\* further tick.
C14_CancellationStopsAll ==
  /\ cancelled ~> []AllStopped
  /\ [][pc = "stopped" => (pc' = "stopped" /\ ticks' = ticks)]_vars
  /\ [][(cancelled /\ gwPc' = "returned") => conn' = "closed"]_vars

\* C14 witness: the signal came while the bot was connected, with a heartbeat
\* task running and ticks evaluated; now everything has returned and the
\* connection is closed.
C14_Witness ==
  /\ cancelled /\ AllStopped
  /\ gwPc = "returned" /\ conn = "closed" /\ readerPc = "exited"
  /\ frames > 0 /\ ticks > 0

-----------------------------------------------------------------------------
(* Gateway: session state, the reader and the listeners.                   *)

\* The step writes an Identify frame.
Identifies == \E f \in sent' : f.op = opIdentify

\* C21: session state is per session: when the client identifies again (after
\* a HELLO or an INVALID_SESSION) the stored session identifier is cleared and
\* the stored sequence number is at most the one the frame just handled
\* carries, and when the read loop ends or Connect returns both are cleared;
\* so no later heartbeat carries a sequence number of an earlier session.
C21_SessionStateDiscarded ==
  [][/\ Identifies =>
          /\ sessionID' = ""
          /\ sequence' = IF lastFrame'.hasSeq THEN lastFrame'.s ELSE 0
     /\ (\/ readerPc = "reading" /\ readerPc' = "exited"
         \/ gwPc = "waiting" /\ gwPc' = "returned") =>
          /\ sessionID' = ""
          /\ sequence' = 0]_vars

\* C22: an inbound frame that cannot be decoded is dropped and the read loop
\* goes on: after it the reader is still reading, with nothing else changed.
C22_MalformedFrameDropped ==
  [][(frames' # frames /\ lastFrame' = MalformedFrame) =>
       /\ readerPc' = "reading"
       /\ conn' = conn
       /\ sent' = {}]_vars

\* C23: the reader never waits for a listener: the step that handles a
\* DISPATCH frame starts the listeners and leaves the reader in its loop, and
\* the reader is never in a position other than its loop while a listener
\* runs and the connection attempt goes on.
C23_ReaderNeverWaits ==
  /\ [][(frames' # frames /\ lastFrame'.op = opDispatch /\ running' # EmptyBag) =>
          readerPc' = "reading"]_vars
  /\ [](readerPc \in {"none", "reading", "exited", "panicked"})

\* C23 witness: a listener started by an earlier DISPATCH frame is still
\* running when the reader has handled a later frame that starts none (a
\* heartbeat request), and the reader is reading on.
C23_Witness ==
  /\ running # EmptyBag
  /\ frames >= 2
  /\ lastFrame.op = opHeartbeat
  /\ readerPc = "reading"

\* C24: a listener that panics while handling an event leaves the other
\* listeners running and the reader in its loop.
C24_ListenerFailureIsContained ==
  [][\A l \in BagToSet(running) :
       listenerPanics(l) =>
         /\ readerPc' = readerPc
         /\ running' = running (-) SetToBag({l})
         /\ heartbeatLoops' = heartbeatLoops]_vars

\* C25: at every moment at most one heartbeat task exists for the connection
\* (the model has one reader position, started by Connect only), whatever
\* frames have been received.
C25_OneHeartbeatTask ==
  BagCardinality(heartbeatLoops) <= 1

\* The step handles a DISPATCH frame for the ready event whose payload decodes.
HandlesReady ==
  /\ frames' # frames
  /\ lastFrame'.op = opDispatch
  /\ lastFrame'.t = "READY"
  /\ lastFrame'.d \in {"ok", "nouser"}

\* C26: handling a DISPATCH frame for the ready event with a payload that
\* decodes stores the session id of the payload and still starts the listeners
\* registered for the event; no other step changes the stored session id.
C26_ReadySetsSession ==
  [][/\ HandlesReady =>
          /\ sessionID' = "session"
          /\ running' = running (+) Started("READY")
     /\ ~HandlesReady => sessionID' = sessionID]_vars

-----------------------------------------------------------------------------
(* Schedule engine: the digest pass under a concurrent Load.               *)

\* The step in which sendDailyDigest builds and posts the digest.
SendsDigest == pc = "sendDailyDigest" /\ pc' = "checkReminders"

\* config is a configuration under which the digest check of this pass fired:
\* the instant the check took is in the zone of config's first schedule, at
\* config's digest time of day.
FiredUnder(config) ==
  LET zone == config.Schedules[1].Timezone
  IN  /\ LoadLocationOk(zone)
      /\ WellFormedTime(config.DigestTime)
      /\ digestNow.loc = zone
      /\ LocalMinuteOfDay(digestNow.abs, zone) = MinuteOfDayOf[config.DigestTime]

\* C27: Load is atomic with respect to a pass: the schedule list and the
\* digest channel the digest pass posts from belong to the same configuration
\* as the digest time and the reference timezone it fired under.  (The
\* reminder pass and the creation pass read everything they use in one step.)
C27_LoadAtomicForPass ==
  [][SendsDigest =>
       \E config \in Configs :
         /\ FiredUnder(config)
         /\ schedules = config.Schedules
         /\ digestChannel = config.DigestChannel]_vars

\* The names of the schedules of the list that occur on the day instant t
\* falls on in the zone of the list's first schedule, in the list's order.
ListedToday(scheds, t) ==
  LET day == LocalDay(t, scheds[1].Timezone)
      today == SelectSeq(scheds, LAMBDA s : OccursOn(s, day))
  IN  [i \in 1..Len(today) |-> today[i].Name]

\* The calls of the step to the given API.
CallsTo(api) == {c \in BagToSet(calls') : c.api = api}

\* C29: the digest pass takes now and the date in the timezone of the first
\* configured schedule; when it fires it records the date in that timezone and
\* posts one message (unless the channel cannot be resolved) listing exactly
\* the schedules of the configuration that occur on today's weekday in that
\* timezone, an empty list standing for the no-events message.
C29_DigestListsToday ==
  [][/\ (pc = "checkDigest" /\ pc' = "sendDailyDigest") =>
          lastDigest' = DateStrings[LocalDay(now, schedules[1].Timezone) + 1]
     /\ SendsDigest =>
          \E config \in Configs :
            /\ FiredUnder(config)
            /\ \/ /\ CallsTo("SendMessage") = {}
                  /\ CallsTo("GetGuildChannels") # {}
               \/ /\ Cardinality(CallsTo("SendMessage")) = 1
                  /\ \A c \in CallsTo("SendMessage") :
                       /\ CopiesIn(c, calls') = 1
                       /\ c.args.list = ListedToday(config.Schedules, digestNow.abs)]_vars

-----------------------------------------------------------------------------
(* Schedule engine: the order of the passes and the moment of the mark.    *)

\* The date of the day after instant t in the schedule's zone.
TomorrowOf(schedule, t) == DateStrings[LocalDay(t, schedule.Timezone) + 2]

\* The date of instant t in the schedule's zone.
TodayOf(schedule, t) == DateStrings[LocalDay(t, schedule.Timezone) + 1]

\* The step starts the action id.
Starts(id) == CopiesIn(id, started') > CopiesIn(id, started)

\* C28: a tick runs the digest pass, then the reminder pass, then the
\* creation pass: the position of the tick moves from the digest check (to the
\* posting of the digest when it fires) to the reminder pass, from there to
\* the creation pass and from there to the end of the tick, never otherwise;
\* the reminder pass and the creation pass start an action for every schedule
\* of the list that matches and is unmarked.
C28_PassesInOrder ==
  [][/\ pc' # pc =>
          \/ pc \in {"start", "idle"} /\ pc' \in {"idle", "checkDigest", "stopped"}
          \/ pc = "checkDigest" /\ pc' \in {"sendDailyDigest", "checkReminders"}
          \/ pc = "sendDailyDigest" /\ pc' = "checkReminders"
          \/ pc = "checkReminders" /\ pc' = "checkSchedules"
          \/ pc = "checkSchedules" /\ pc' = "idle"
     /\ (pc = "checkReminders" /\ pc' # pc) =>
          \A i \in 1..Len(schedules) : \A k \in 1..Len(reminderMinutes) :
            LET schedule == schedules[i]
                mins == reminderMinutes[k]
                key == ReminderKey(schedule.Name, TodayOf(schedule, now), mins)
            IN  (/\ ReminderMinuteMatches(schedule, now, mins)
                 /\ OccursOn(schedule, LocalDay(now, schedule.Timezone))
                 /\ key \notin sentReminders)
                => Starts(<<"remind", key[1], key[2], key[3]>>)
     /\ (pc = "checkSchedules" /\ pc' # pc) =>
          \A i \in 1..Len(schedules) :
            LET schedule == schedules[i]
            IN  (/\ CreationMatches(schedule, now)
                 /\ MapGet(lastCreated, schedule.Name) # TomorrowOf(schedule, now))
                => Starts(<<"create", schedule.Name, TomorrowOf(schedule, now)>>)]_vars

\* C28 witness: a tick has ended in which the digest was posted, a reminder
\* was started for the second schedule of the list and a creation for the
\* first.
C28_Witness ==
  /\ pc = "idle"
  /\ ticks >= 1
  /\ Len(schedules) >= 2
  /\ Times(<<"digest", "2025-01-26">>) >= 1
  /\ \E mins \in {60, 59} : Times(<<"remind", schedules[2].Name, "2025-01-26", mins>>) >= 1
  /\ Times(<<"create", schedules[1].Name, "2025-01-27">>) >= 1

\* C30: the duplicate-suppression mark is committed by the tick itself: in the
\* step of the reminder pass or of the creation pass that starts a task, the
\* mark of the task's tuple is already set.
C30_MarkBeforeSpawn ==
  [][\A task \in BagToSet(tasks') :
       CopiesIn(task, tasks') > CopiesIn(task, tasks) =>
         IF task.kind = "sendReminder"
         THEN task.key \in sentReminders'
         ELSE MapGet(lastCreated', task.key[1]) = task.key[2]]_vars

-----------------------------------------------------------------------------
(* Schedule engine: failures of outbound calls.                            *)

\* The channel the action id resolves first: the digest channel for a digest,
\* the notify channel of the schedule for a reminder, its voice channel for a
\* creation.
FirstChannelOf(id) ==
  IF id[1] = "digest" THEN {digestChannel}
  ELSE {IF id[1] = "remind" THEN s.NotifyChannel ELSE s.VoiceChannel :
          s \in {x \in LoadedSchedules : x.Name = id[2]}}

\* The action id has been attempted and has failed: it was started, nothing of
\* it is still to run, and the channel it resolves first is still unknown to
\* the cache (a resolution that succeeds stores the channel, and the cache
\* loses nothing).
KnownFailed(id) ==
  /\ Times(id) >= 1
  /\ pc # "sendDailyDigest"
  /\ \A task \in BagToSet(tasks) : ActionOf(task) # id
  /\ \A name \in FirstChannelOf(id) : name \notin DOMAIN channelCache

\* C31: the duplicate-suppression mark is committed before the first outbound
\* call of an action (it is set in the state in which the calls of the action
\* are made, whether they fail or not), a reminder mark is never removed, and
\* an action that has failed is not started again by a later tick for the
\* same tuple or date.
C31_FailedActionNotRetried ==
  [][/\ \A task \in BagToSet(tasks) :
          tasks' = Return(task) =>
            IF task.kind = "sendReminder"
            THEN task.key \in sentReminders'
            ELSE MapGet(lastCreated', task.key[1]) = task.key[2]
     /\ (pc = "checkDigest" /\ pc' = "sendDailyDigest") =>
          lastDigest' = Format(digestNow')
     /\ sentReminders \subseteq sentReminders'
     /\ \A id \in BagToSet(started) : KnownFailed(id) => ~Starts(id)]_vars

\* The schedule's timezone cannot be loaded, or its time of day is not a
\* well-formed HH:MM.
Faulty(schedule) ==
  ~LoadLocationOk(schedule.Timezone) \/ ~WellFormedTime(schedule.Time)

\* C32: a schedule whose timezone cannot be loaded or whose time of day is
\* not a well-formed HH:MM (wrong number of fields, or fields that are no
\* numbers) produces no creation and no reminder in the pass, at any instant
\* and for any lead-time.
C32_FaultyScheduleSkipped ==
  (evalOut.done /\ Faulty(schedules[1])) =>
    /\ ~evalOut.trigger
    /\ evalOut.reminders = {}

\* The calls of the step to the given API made for the action of the task.
CallsOf(api, task) == {c \in CallsTo(api) : c.for = ActionOf(task)}

\* The goroutine of the task runs in this step.
Runs(task) == tasks' = Return(task)

\* C33 as stated: a channel that cannot be resolved aborts only the step that
\* needs it: a creation task whose voice channel is resolved calls
\* CreateScheduledEvent also when its notify channel cannot be resolved, and
\* a reminder task whose notify channel is resolved sends its message also
\* when its voice channel cannot be.
C33_ResolutionFailureIsLocal ==
  [][\A task \in BagToSet(tasks) :
       Runs(task) =>
         /\ (task.kind = "triggerSchedule"
             /\ task.schedule.VoiceChannel \in DOMAIN channelCache')
            => CallsOf("CreateScheduledEvent", task) # {}
         /\ (task.kind = "sendReminder"
             /\ task.schedule.NotifyChannel \in DOMAIN channelCache')
            => CallsOf("SendMessage", task) # {}]_vars

\* The channels whose resolution failing ends the task: both channels of a
\* creation, the notify channel of a reminder.
NeededBy(task) ==
  IF task.kind = "triggerSchedule"
  THEN {task.schedule.VoiceChannel, task.schedule.NotifyChannel}
  ELSE {task.schedule.NotifyChannel}

\* C33, amended: a channel that cannot be resolved aborts the action that
\* needs it, and only that action: a creation task one of whose channels is
\* not resolved makes no CreateScheduledEvent and no SendMessage call, a
\* reminder task whose notify channel is not resolved sends nothing (one
\* whose voice channel alone is not resolved still sends its message), and
\* the step leaves the other tasks and the actions started as they were.
C33_ResolutionFailureAbortsAction ==
  [][\A task \in BagToSet(tasks) :
       Runs(task) =>
         /\ (NeededBy(task) \ DOMAIN channelCache' # {}) =>
              /\ CallsOf("CreateScheduledEvent", task) = {}
              /\ CallsOf("SendMessage", task) = {}
         /\ (task.kind = "sendReminder"
             /\ task.schedule.NotifyChannel \in DOMAIN channelCache')
            => CallsOf("SendMessage", task) # {}
         /\ started' = started
         /\ \A c \in BagToSet(calls') : c.for = ActionOf(task)]_vars

\* C33 witness: a creation task has run in a guild without its notify
\* channel: the voice channel is resolved, the notify channel is not, no
\* CreateScheduledEvent and no SendMessage call was made, and the task of
\* another schedule is still to run.
C33_Witness ==
  /\ "voice" \in DOMAIN channelCache
  /\ "events" \notin DOMAIN channelCache
  /\ \E c \in BagToSet(calls) : c.api = "GetGuildChannels" /\ c.for[1] = "create"
  /\ \A c \in BagToSet(calls) : c.api = "GetGuildChannels"
  /\ tasks # EmptyBag

-----------------------------------------------------------------------------
(* Channel resolution: the cache over time.                                *)

\* C34: once resolve(name) has succeeded with identifier X the cache keeps X
\* for name, whatever the listing becomes and whatever other name is resolved
\* next, and no cache entry is ever removed.
C34_ResolvedIdIsKept ==
  [][/\ DOMAIN channelCache \subseteq DOMAIN channelCache'
     /\ (evalOut.done /\ evalOut.ok) =>
          MapGet(channelCache', evalOut.name) = evalOut.id]_vars

-----------------------------------------------------------------------------
(* Schedule engine: who makes the outbound calls.                          *)

\* C35: the tick loop never makes an outbound call: every step in which a
\* call is made (channel listing, message send, resource creation) is the
\* step of a spawned task, and leaves the position of the tick loop alone.
C35_TickLoopMakesNoCall ==
  [][calls' # EmptyBag =>
       /\ pc' = pc
       /\ \E task \in BagToSet(tasks) : Runs(task)]_vars

-----------------------------------------------------------------------------
(* Schedule engine: the resource a creation makes and its announcement.    *)

\* C36: the resource created for schedule S by the pass at instant now starts
\* on the calendar day after now's date in S's timezone, at S's hour and
\* minute in that timezone, and ends S.DurationMinutes minutes after its
\* start; the date of that start in S's timezone is the date recorded as the
\* mark.
C36_CreatedResourceTimes ==
  [][\A task \in BagToSet(tasks) :
       (Runs(task) /\ task.kind = "triggerSchedule") =>
         \A c \in CallsOf("CreateScheduledEvent", task) :
           LET schedule == task.schedule
               zone == schedule.Timezone
               start == (LocalDay(task.at, zone) + 1) * MinutesPerDay
                        + MinuteOfDayOf[schedule.Time] - ZoneOffset[zone]
           IN  /\ c.args.start = start
               /\ c.args.end = start + schedule.DurationMinutes
               /\ MapGet(lastCreated', schedule.Name)
                    = DateStrings[LocalDay(start, zone) + 1]]_vars

\* C36 witness: the resource of the Bangkok schedule has been created by the
\* pass of Sunday 17:01 UTC (Monday 00:01 in Bangkok) for Tuesday 2025-01-28.
C36_Witness ==
  /\ \E c \in BagToSet(calls) :
       /\ c.api = "CreateScheduledEvent"
       /\ c.args.event \in EventIDs
       /\ c.for = <<"create", "Standup", "2025-01-28">>
  /\ MapGet(lastCreated, "Standup") = "2025-01-28"

\* C37: in a creation action the announcement is sent only when the creation
\* has returned an identifier, it carries that identifier, and no announcement
\* is sent when the creation fails or a channel of the schedule is not
\* resolved.
C37_AnnouncementAfterCreation ==
  [][\A task \in BagToSet(tasks) :
       (Runs(task) /\ task.kind = "triggerSchedule") =>
         /\ \A m \in CallsOf("SendMessage", task) :
              /\ CopiesIn(m, calls') = 1
              /\ \E c \in CallsOf("CreateScheduledEvent", task) :
                   c.args.event \in EventIDs /\ m.args.event = c.args.event
         /\ Cardinality(CallsOf("SendMessage", task)) <= 1
         /\ (\/ NeededBy(task) \ DOMAIN channelCache' # {}
             \/ \A c \in CallsOf("CreateScheduledEvent", task) : c.args.event = "")
            => CallsOf("SendMessage", task) = {}]_vars

\* C37 witness: a creation has returned the identifier e2 and the
\* announcement carrying e2 has been sent to the notify channel.
C37_Witness ==
  \E c, m \in BagToSet(calls) :
    /\ c.api = "CreateScheduledEvent" /\ c.args.event = "e2"
    /\ m.api = "SendMessage" /\ m.args.event = "e2" /\ m.args.channel = "c3"
    /\ m.for = c.for

-----------------------------------------------------------------------------
(* Schedule engine: a Load that fails.                                     *)

\* C38: a Load that fails (the initial one of Run or a later one) leaves the
\* schedule list, the digest time, the digest channel, the reminder
\* lead-times, the last-created map, the last-digest date and the
\* sent-reminder marks exactly as they were.
C38_FailedLoadChangesNothing ==
  [][(RunLoadFails \/ ReloadFails) =>
       UNCHANGED <<schedules, digestTime, digestChannel, reminderMinutes,
                   lastCreated, lastDigest, sentReminders, channelCache>>]_vars

\* C38 witness: the initial Load has failed and the engine is as New left
\* it.
C38_Witness ==
  /\ pc = "stopped"
  /\ loads = 1
  /\ SchedulerNew

\* C39: when the initial Load of Run has failed (a Load was attempted and
\* the schedule list is still empty) Run has returned: the tick loop is
\* stopped, no tick was evaluated, no digest, reminder or creation was started
\* and no task exists; the step in which the Load fails leaves the gateway as
\* it is.
C39_FailedInitialLoadStopsRun ==
  /\ []((loads >= 1 /\ schedules = <<>>) =>
          /\ pc = "stopped"
          /\ ticks = 0
          /\ started = EmptyBag
          /\ tasks = EmptyBag
          /\ lastDigest = "" /\ lastCreated = EmptyMap /\ sentReminders = {})
  /\ [][RunLoadFails => UNCHANGED gwVars]_vars

\* C39 witness: the initial Load has failed, minutes have passed, and the
\* gateway is connected and has handled a frame.
C39_Witness ==
  /\ loads = 1
  /\ schedules = <<>>
  /\ pc = "stopped"
  /\ elapsed >= 1
  /\ conn = "open"
  /\ frames >= 1
  /\ heartbeatLoops # EmptyBag

-----------------------------------------------------------------------------
(* Schedule engine: the weekday of a reminder.                             *)

\* C40: a reminder for schedule S is started only by a pass whose instant
\* falls, in S's timezone, on one of S's configured weekdays, whatever the
\* time of day and the lead-times.
C40_ReminderOnlyOnItsDay ==
  (evalOut.done /\ evalOut.reminders # {}) =>
    /\ LoadLocationOk(schedules[1].Timezone)
    /\ OccursOn(schedules[1], LocalDay(now, schedules[1].Timezone))

\* C40 witness: a reminder is started for the New York schedule on a Monday
\* there.
C40_Witness ==
  /\ evalOut.done
  /\ evalOut.reminders # {}
  /\ schedules[1].Timezone = "America/New_York"
  /\ LowerWeekdayOf(LocalDay(now, "America/New_York")) = "monday"

=============================================================================
